---- MODULE Spec2Model ----
(***************************************************************************)
(* Model of the backupTab storage providers (src/backend/src/providers)   *)
(* and of the backup service that drives them.                             *)
(*                                                                         *)
(* A behaviour follows ONE provider instance: it is constructed, and then  *)
(* upload / download / list_files / delete / test_connection are called    *)
(* on it.  The remote side (directory, bucket, Drive folder) is the        *)
(* sequence `store`; what a backend call answers is an input of the        *)
(* action (an element of Outcomes).                                        *)
(*                                                                         *)
(* Beside the provider: one backup run (archive, encryption, fan-out),     *)
(* two runs that name their archives in one directory, the retention       *)
(* cleanup of BackupService (alone and beside a run), and the              *)
(* construction and connection test of BackupService.                      *)
(***************************************************************************)
EXTENDS Integers, Sequences, FiniteSets, TLC

\* ------------------------------------------------------------------ bounds
MaxRetries == 3
MaxObjects == 2

\* --------------------------------------------------------------- universes
Providers == {"local", "aws_s3", "google_drive", "dropbox", "backblaze"}

\* Remote names are sequences of path characters, so that a prefix is a prefix.
Names == {<<"x">>, <<"x", "y">>}
Prefixes == {<<>>, <<"x">>, <<"y">>}
Sentinel == <<".test_connection">>
Payloads == {"b1", "b2"}
SentinelText == "test"
NoData == "none"
RetryDelays == {3}

\* What one backend call answers: "ok" (the backend answered; for a lookup of
\* an absent object that answer is its not-found response), or an error.
\*   "5xx"      a service error           (botocore ClientError, code 5xx)
\*   "endpoint" a connection error        (botocore EndpointConnectionError)
\*   "403"      access denied / bad credentials
\*   "404"      not found
\*   "other"    any other exception (OSError, ...)
Errors == {"5xx", "endpoint", "403", "404", "other"}
Outcomes == {"ok"} \cup Errors
Transient == {"5xx", "endpoint"}
Permanent == {"403", "404"}

VARIABLES
    provider,     \* which provider class the instance is
    max_retries,  \* config 'max_retries'
    retry_delay,  \* config 'retry_delay'
    client,       \* s3_client / service / dbx / b2_api: "new" before __init__,
                  \* then "ready", "none" (set to None) or "unset" (never assigned)
    store,        \* the remote objects: sequence of [name, data]
    tc,           \* LocalProvider.test_connection in progress: "idle" / "written"
    tcPre,        \* the store when the running test_connection began
    uploaded,     \* per name: bytes of the last successful upload not deleted since
    last,         \* the last completed call and what it did
    \* --- one backup run of the service
    runPc,        \* "new", "archived", "idle" (artifact ready), "uploading"
                  \* (fan-out in progress), "done", "failed" (no archive)
    runDisk,      \* the run's working files on disk: "archive", "encrypted"
    runMade,      \* the working files the run has created so far
    runEnabled,   \* the providers whose configuration has enabled = true
    runStub,      \* per provider, what its upload does: "ok", "false", "raise"
    runQueue,     \* the enabled providers not yet attempted, in order
    runAttempts,  \* per provider, the uploads of the artifact attempted
    runResult,    \* per provider, ProviderResult.success ("none" before)
    runReturn,    \* what BackupService.create_backup returned ("none" before)
    \* --- two runs that build their archives in the same directory
    nmTs,         \* per run, the timestamp string it was given
    nmKey,        \* per run, whether get_suk_key() yields a key
    nmPc,         \* per run: "start", "archived", "done"
    nmDir,        \* the paths that exist in the directory
    nmWrote,      \* per run, the paths it opened for writing
    nmArchive,    \* per run, what LocalProvider.create_backup returned
    nmEncrypted,  \* per run, what EncryptionManager.encrypt_file returned
    \* --- cleanup_old_backups, and a backup run beside it
    clStore,      \* per provider, the backups it holds (by modification time)
    clStore0,     \* clStore when cleanup_old_backups listed
    max_backups,  \* config["retention"]["max_backups"]
    retention_days, \* config["retention"]["days"]
    clPc,         \* "idle", "deleting", "done"
    clQueue,      \* backups_to_remove not yet attempted
    clSelected,   \* backups_to_remove
    clAttempted,  \* the backups whose delete was called
    clRemoved,    \* the backups whose delete returned True
    clRaised,     \* a delete raised
    clReturn,     \* what cleanup_old_backups returned ("none" before)
    clDuring,     \* the backup run was under way when cleanup listed
    crPc,         \* the backup run: "idle", "uploading", "done"
    crQueue,      \* the providers the run has still to upload to
    crUploading,  \* the provider whose upload is in flight ("none")
    \* --- the BackupService object
    svcEnabled,   \* the names under config["providers"] with enabled = true
    svcCtor,      \* per name, what the constructor of its class does
    svcTest,      \* per name, what test_connection of its instance does
    svcPc,        \* "new", "initializing", "ready", "testing", "tested", and
                  \* "raised" (an exception left test_connection)
    svcInitQueue, \* _initialize_providers: names still to visit
    providers,    \* self.providers, in insertion order
    svcBuilt,     \* the names whose provider class was instantiated
    svcTestQueue, \* test_connection: providers still to test
    svcTested,    \* per name, the calls of its test_connection
    all_success,  \* test_connection's all_success
    \* --- one call of LocalProvider.create_backup
    backup_items, \* the paths to archive, in order
    arExists,     \* the paths that exist
    arPc,         \* "start", "open" (tarfile open), "done"
    arTodo,       \* the items the loop has still to visit
    arMembers,    \* the members of the archive: [arcname, source]
    arFile,       \* the archive file exists on disk
    arReturn,     \* what create_backup returned ("none" before, NoPath for None)
    \* --- EncryptionManager: one encrypt_file and one decrypt_file
    cryPlain,     \* the bytes of the file encrypt_file reads
    cryKey,       \* the key get_suk_key gave encrypt_file
    cryFile,      \* the encrypted file: a Fernet token, "absent" before
    cryChanged,   \* the part of the token changed since, "none" if none
    cryDecKey,    \* the key get_suk_key gave decrypt_file (NoKey for None)
    cryData,      \* decrypt_file's decrypted_data
    cryOut0,      \* the output path before decrypt_file
    cryOut,       \* the output path: Absent or its bytes
    cryPc,        \* "plain", "encrypted", "authenticated", "done"
    cryFault,     \* the write of the output failed
    cryReturn,    \* what decrypt_file returned ("none" before, NoPath for None)
    \* --- AWSS3Provider's connection pool and the threads using it
    connection_pool_size,
    connection_pool,  \* _connection_pool, a list of connections
    poolPc,       \* per thread: "idle", "get", "return" (past the check of a call)
    poolHeld,     \* per thread: the connection it holds, 0 for none
    poolMade,     \* the connections created so far
    \* --- AWSS3Provider client-side encryption
    encConfig,    \* config: [encryption_enabled, encryption_key, encryption_salt]
    encryption_enabled,
    fernet,       \* _fernet: NoKey for None, else the derived key
    encPc,        \* "new" before __init__, "ready" after
    encBucket,    \* what the bucket holds under remote_name and remote_name.encrypted
    encTemp,      \* /tmp/<remote_name>.encrypted exists
    encLocal,     \* what local_path holds after download_encrypted
    encLast,      \* the last call: [op, ret, path]
    \* --- BackupService._load_config
    config_file,  \* the configuration file: [kind, body]
    cfgFile0,     \* the configuration file when _load_config was entered
    config,       \* what _load_config returned
    cfgPc,        \* "start", "read", "write", "returned" (the file's
                  \* configuration), "defaulted" (the defaults), "raised"
    cfgLoads      \* the calls of _load_config so far

provVars == <<provider, max_retries, retry_delay, client, store, tc, tcPre, uploaded, last>>
runVars == <<runPc, runDisk, runMade, runEnabled, runStub, runQueue, runAttempts, runResult, runReturn>>
nameVars == <<nmTs, nmKey, nmPc, nmDir, nmWrote, nmArchive, nmEncrypted>>
cleanVars == <<clStore, clStore0, max_backups, retention_days, clPc, clQueue, clSelected,
               clAttempted, clRemoved, clRaised, clReturn, clDuring, crPc, crQueue,
               crUploading>>
svcVars == <<svcEnabled, svcCtor, svcTest, svcPc, svcInitQueue, providers, svcBuilt,
             svcTestQueue, svcTested, all_success>>
archVars == <<backup_items, arExists, arPc, arTodo, arMembers, arFile, arReturn>>
cryVars == <<cryPlain, cryKey, cryFile, cryChanged, cryDecKey, cryData, cryOut0,
             cryOut, cryPc, cryFault, cryReturn>>
poolVars == <<connection_pool_size, connection_pool, poolPc, poolHeld, poolMade>>
encVars == <<encConfig, encryption_enabled, fernet, encPc, encBucket, encTemp, encLocal, encLast>>
cfgVars == <<config_file, cfgFile0, config, cfgPc, cfgLoads>>
extVars == <<nameVars, cleanVars, svcVars, archVars, cryVars, poolVars, encVars, cfgVars>>
vars == <<provVars, runVars, extVars>>

\* ------------------------------------------------------------ pure helpers
RECURSIVE Pow2(_)
Pow2(k) == IF k <= 0 THEN 1 ELSE 2 * Pow2(k - 1)

RECURSIVE SumSeq(_)
SumSeq(s) == IF s = <<>> THEN 0 ELSE Head(s) + SumSeq(Tail(s))

SentinelFiles(s) == SelectSeq(s, LAMBDA e : e.name = <<".test_connection">>)

IsPrefix(p, n) == Len(p) <= Len(n) /\ SubSeq(n, 1, Len(p)) = p

Contains(n, p) ==
    \E i \in 1..(Len(n) + 1) : i + Len(p) - 1 <= Len(n) /\ SubSeq(n, i, i + Len(p) - 1) = p

Take(s, k) == SubSeq(s, 1, IF k < Len(s) THEN k ELSE Len(s))

RemoveAt(s, i) == SubSeq(s, 1, i - 1) \o SubSeq(s, i + 1, Len(s))

Indices(s, name) == {i \in 1..Len(s) : s[i].name = name}

Present(s, name) == Indices(s, name) # {}

MaxOf(S) == CHOOSE m \in S : \A k \in S : k <= m

NamesOf(s) == [i \in 1..Len(s) |-> s[i].name]

RECURSIVE Filter(_, _, _)
\* the entries of s, in order, whose name matches `prefix` the way `kind` matches
Filter(s, prefix, kind) ==
    IF s = <<>> THEN <<>>
    ELSE LET h == Head(s)
             keep == IF kind = "startswith" THEN prefix = <<>> \/ IsPrefix(prefix, h.name)
                     ELSE prefix = <<>> \/ Contains(h.name, prefix)
         IN (IF keep THEN <<h>> ELSE <<>>) \o Filter(Tail(s), prefix, kind)

Range(f) == {f[i] : i \in DOMAIN f}

ConstSeq(n, o) == [i \in 1..n |-> o]
\* The answers to the attempts of one call.  No loop makes another attempt
\* after the backend answered, so what follows an "ok" is never read.
OutSeqs(n) == {s \in [1..n -> Outcomes] : \A i \in 1..(n - 1) : s[i] = "ok" => s[i + 1] = "ok"}

\* ------------------------------------------------- the record of a call
Idle ==
    [op |-> "none", name |-> <<>>, ret |-> "none", data |-> NoData,
     attempts |-> 0, slept |-> <<>>, errs |-> {}, permAt |-> 0, ntrans |-> 0,
     looped |-> FALSE, large |-> FALSE, present |-> FALSE, held |-> NoData,
     changed |-> FALSE, listed |-> <<>>, maxArg |-> 0, during |-> "idle"]

\* ------------------------------------------------------- the retry loops
\* a wait that does not grow with the attempt
BackoffConstant(attempt) == retry_delay

\* time.sleep(self.retry_delay * (2 ** attempt))
Backoff(attempt) == retry_delay * Pow2(attempt)

\* The except-clauses of one loop iteration: "sleep" (wait, then the next
\* iteration) or "false" (return False / give up).
S3ClientErrorHandler(err, attempt) ==
    IF attempt < max_retries - 1 /\ err \notin {"403", "404"} THEN "sleep" ELSE "false"

S3EndpointErrorHandler(attempt) ==
    IF attempt < max_retries - 1 THEN "sleep" ELSE "false"

GDriveExceptionHandler(attempt) ==
    IF attempt < max_retries - 1 THEN "sleep" ELSE "false"

Handler(kind, err, attempt) ==
    CASE kind \in {"s3_init", "s3_upload", "s3_download"} ->
            IF err \in {"5xx", "403", "404"} THEN S3ClientErrorHandler(err, attempt)
            ELSE IF err = "endpoint" THEN S3EndpointErrorHandler(attempt)
            ELSE "false"
      [] kind = "s3_delete" ->
            \* no EndpointConnectionError clause: it lands in `except Exception`
            IF err \in {"5xx", "403", "404"} THEN S3ClientErrorHandler(err, attempt)
            ELSE "false"
      [] kind \in {"gdrive_upload", "gdrive_download"} ->
            GDriveExceptionHandler(attempt)

\* What the body of one iteration does with the backend's answer `out` when
\* the object is `present`: "true" (return True), "false" (return False
\* from inside the try), or the error raised into the except-clauses.
Attempt(kind, out, present) ==
    CASE kind \in {"s3_download", "s3_delete"} ->
            \* head_object first: its 404 returns False at once
            IF out = "ok" THEN (IF present THEN "true" ELSE "false")
            ELSE IF out = "404" THEN "false"
            ELSE out
      [] kind = "gdrive_download" ->
            \* files().list: an empty result returns False
            IF out = "ok" THEN (IF present THEN "true" ELSE "false") ELSE out
      [] OTHER ->
            IF out = "ok" THEN "true" ELSE out

RECURSIVE RetryLoop(_, _, _, _, _)
\* for attempt in range(self.max_retries): ... ; return False
\* acc: the attempts made, the waits, the errors seen, the first attempt that
\* failed with a 403/404, and how many attempts failed with a transient error
RetryLoop(kind, outs, present, attempt, acc) ==
    IF attempt >= max_retries
    THEN [acc EXCEPT !.ret = "false"]
    ELSE LET out == outs[attempt + 1]
             did == Attempt(kind, out, present)
             \* head_object answers a missing key with a ClientError 404
             head404 == out = "ok" /\ did = "false" /\ kind # "gdrive_download"
             seen == IF out # "ok" THEN {out} ELSE IF head404 THEN {"404"} ELSE {}
             perm == IF acc.permAt = 0 /\ seen \cap Permanent # {} THEN attempt + 1 ELSE acc.permAt
             now == [acc EXCEPT !.attempts = attempt + 1,
                                !.errs = acc.errs \cup seen,
                                !.permAt = perm,
                                !.ntrans = acc.ntrans + (IF out \in Transient THEN 1 ELSE 0)]
         IN IF did \in {"true", "false"}
            THEN [now EXCEPT !.ret = did]
            ELSE IF Handler(kind, did, attempt) = "sleep"
                 THEN RetryLoop(kind, outs, present, attempt + 1,
                                [now EXCEPT !.slept = Append(acc.slept, Backoff(attempt))])
                 ELSE [now EXCEPT !.ret = "false"]

Loop(kind, outs, present) ==
    RetryLoop(kind, outs, present, 0,
              [ret |-> "false", attempts |-> 0, slept |-> <<>>, errs |-> {}, permAt |-> 0,
               ntrans |-> 0])

WithLoop(rec, r) ==
    [rec EXCEPT !.ret = r.ret, !.attempts = r.attempts, !.slept = r.slept,
                !.errs = r.errs, !.permAt = r.permAt, !.ntrans = r.ntrans,
                !.looped = TRUE]

\* One call outside a retry loop that failed with `out`, or answered.
Single(rec, ret, out) ==
    [rec EXCEPT !.ret = ret, !.attempts = 1,
                !.errs = IF out = "ok" THEN {} ELSE {out},
                !.permAt = IF out \in Permanent THEN 1 ELSE 0,
                !.ntrans = IF out \in Transient THEN 1 ELSE 0]

\* ------------------------------------------------------ the remote side
Entry(name, data) == [name |-> name, data |-> data]

\* a path, an S3 key or a Dropbox path (WriteMode.overwrite) names one object
Overwrite(s, name, data) ==
    IF Present(s, name)
    THEN [i \in 1..Len(s) |-> IF s[i].name = name THEN Entry(name, data) ELSE s[i]]
    ELSE Append(s, Entry(name, data))

\* Drive's files().create and B2's upload_local_file add a file (a version)
\* beside the ones of the same name
AddFile(s, name, data) == Append(s, Entry(name, data))

\* B2 serves a name from its newest version; with one object per name that
\* is the object
Newest(s, name) == MaxOf(Indices(s, name))

\* Which of the stored files with that name a lookup by name may answer:
\* Drive's files().list returns the matches in an order the code does not ask
\* for, and the code takes files[0].
Hits(s, name) ==
    IF ~Present(s, name) THEN {0}
    ELSE IF provider = "google_drive" THEN Indices(s, name)
    ELSE {Newest(s, name)}

\* Exceptions the clauses of DropboxProvider catch (ApiError, AuthError);
\* HttpError, InternalServerError, connection errors and OSError are not.
DropboxCaught(err) == err \in {"403", "404"}

\* `except B2Error` catches every error of the SDK, not an OSError
BackblazeCaught(err) == err # "other"

\* ------------------------------------------------------------ __init__
\* AWSS3Provider._initialize_client: s3_client is assigned in the loop body
S3InitializeClient(outs) ==
    LET r == Loop("s3_init", outs, TRUE)
    IN [client |-> IF max_retries <= 0 THEN "unset"
                   ELSE IF r.ret = "true" THEN "ready" ELSE "none",
        last |-> WithLoop([Idle EXCEPT !.op = "init"], r)]

ConstructResult(cfgOk, outs) ==
    CASE provider = "local" ->
            [client |-> "ready", last |-> [Idle EXCEPT !.op = "init", !.ret = "true"]]
      [] provider = "aws_s3" ->
            IF ~cfgOk
            THEN [client |-> "none", last |-> [Idle EXCEPT !.op = "init", !.ret = "false"]]
            ELSE S3InitializeClient(outs)
      [] provider = "google_drive" ->
            IF cfgOk /\ outs[1] = "ok"
            THEN [client |-> "ready", last |-> [Idle EXCEPT !.op = "init", !.ret = "true"]]
            ELSE [client |-> "none", last |-> [Idle EXCEPT !.op = "init", !.ret = "false"]]
      [] provider = "dropbox" ->
            IF cfgOk
            THEN [client |-> "ready", last |-> [Idle EXCEPT !.op = "init", !.ret = "true"]]
            ELSE [client |-> "none", last |-> [Idle EXCEPT !.op = "init", !.ret = "false"]]
      [] provider = "backblaze" ->
            IF outs[1] = "ok"
            THEN [client |-> "ready", last |-> [Idle EXCEPT !.op = "init", !.ret = "true"]]
            ELSE [client |-> "none", last |-> [Idle EXCEPT !.op = "init", !.ret = "false"]]

\* -------------------------------------------------------------- upload
LocalUpload(rec, name, data, outs) ==
    IF outs[1] = "ok"
    THEN [last |-> Single(rec, "true", "ok"), store |-> Overwrite(store, name, data)]
    ELSE [last |-> Single(rec, "false", outs[1]), store |-> store]

S3UploadWithRetry(rec, name, data, outs) ==
    LET r == Loop("s3_upload", outs, TRUE)
    IN [last |-> WithLoop(rec, r),
        store |-> IF r.ret = "true" THEN Overwrite(store, name, data) ELSE store]

S3UploadLargeFile(rec, name, data, outs) ==
    IF outs[1] = "ok"
    THEN [last |-> Single(rec, "true", "ok"), store |-> Overwrite(store, name, data)]
    ELSE [last |-> Single(rec, "false", outs[1]), store |-> store]

S3Upload(rec, name, data, outs, large) ==
    CASE client = "unset" -> [last |-> [rec EXCEPT !.ret = "raised"], store |-> store]
      [] client = "none" -> [last |-> [rec EXCEPT !.ret = "false"], store |-> store]
      [] OTHER ->
            IF large THEN S3UploadLargeFile(rec, name, data, outs)
            ELSE S3UploadWithRetry(rec, name, data, outs)

GDriveUpload(rec, name, data, outs, folderOk) ==
    IF client # "ready" \/ ~folderOk
    THEN [last |-> [rec EXCEPT !.ret = "false"], store |-> store]
    ELSE LET r == Loop("gdrive_upload", outs, TRUE)
         IN [last |-> WithLoop(rec, r),
             store |-> IF r.ret = "true" THEN AddFile(store, name, data) ELSE store]

DropboxUpload(rec, name, data, outs) ==
    IF client # "ready" THEN [last |-> [rec EXCEPT !.ret = "false"], store |-> store]
    ELSE IF outs[1] = "ok"
    THEN [last |-> Single(rec, "true", "ok"), store |-> Overwrite(store, name, data)]
    ELSE [last |-> Single(rec, IF DropboxCaught(outs[1]) THEN "false" ELSE "raised", outs[1]),
          store |-> store]

BackblazeUpload(rec, name, data, outs) ==
    IF client # "ready" THEN [last |-> [rec EXCEPT !.ret = "false"], store |-> store]
    ELSE IF outs[1] = "ok"
    THEN [last |-> Single(rec, "true", "ok"), store |-> AddFile(store, name, data)]
    ELSE [last |-> Single(rec, IF BackblazeCaught(outs[1]) THEN "false" ELSE "raised", outs[1]),
          store |-> store]

UploadResult(name, data, outs, large, folderOk) ==
    LET rec == [Idle EXCEPT !.op = "upload", !.name = name, !.data = data,
                            !.large = large /\ provider = "aws_s3",
                            !.present = Present(store, name), !.during = tc]
    IN CASE provider = "local" -> LocalUpload(rec, name, data, outs)
         [] provider = "aws_s3" -> S3Upload(rec, name, data, outs, large)
         [] provider = "google_drive" -> GDriveUpload(rec, name, data, outs, folderOk)
         [] provider = "dropbox" -> DropboxUpload(rec, name, data, outs)
         [] provider = "backblaze" -> BackblazeUpload(rec, name, data, outs)

\* ------------------------------------------------------------ download
\* `hit` is the stored file the backend's lookup by name answers (0: none)
Fetched(rec, hit) == [rec EXCEPT !.data = IF hit = 0 THEN NoData ELSE store[hit].data]

LocalDownload(rec, name, outs, hit) ==
    IF outs[1] # "ok" THEN Single(rec, "false", outs[1])
    ELSE IF hit = 0 THEN [rec EXCEPT !.ret = "false"]
    ELSE Fetched(Single(rec, "true", "ok"), hit)

S3Download(rec, name, outs, hit) ==
    CASE client = "unset" -> [rec EXCEPT !.ret = "raised"]
      [] client = "none" -> [rec EXCEPT !.ret = "false"]
      [] OTHER ->
            LET r == Loop("s3_download", outs, hit # 0)
            IN IF r.ret = "true" THEN Fetched(WithLoop(rec, r), hit) ELSE WithLoop(rec, r)

GDriveDownload(rec, name, outs, hit) ==
    IF client # "ready" THEN [rec EXCEPT !.ret = "false"]
    ELSE LET r == Loop("gdrive_download", outs, hit # 0)
         IN IF r.ret = "true" THEN Fetched(WithLoop(rec, r), hit) ELSE WithLoop(rec, r)

\* files_download of a missing path raises ApiError
DropboxDownload(rec, name, outs, hit) ==
    IF client # "ready" THEN [rec EXCEPT !.ret = "false"]
    ELSE IF outs[1] = "ok"
    THEN (IF hit = 0 THEN Single(rec, "false", "404") ELSE Fetched(Single(rec, "true", "ok"), hit))
    ELSE Single(rec, IF DropboxCaught(outs[1]) THEN "false" ELSE "raised", outs[1])

\* get_file_info_by_name of a missing name raises FileNotPresent, a B2Error
BackblazeDownload(rec, name, outs, hit) ==
    IF client # "ready" THEN [rec EXCEPT !.ret = "false"]
    ELSE IF outs[1] = "ok"
    THEN (IF hit = 0 THEN Single(rec, "false", "404") ELSE Fetched(Single(rec, "true", "ok"), hit))
    ELSE Single(rec, IF BackblazeCaught(outs[1]) THEN "false" ELSE "raised", outs[1])

DownloadResult(name, outs, hit) ==
    LET rec == [Idle EXCEPT !.op = "download", !.name = name,
                            !.present = Present(store, name),
                            !.held = uploaded[name], !.during = tc]
    IN CASE provider = "local" -> LocalDownload(rec, name, outs, hit)
         [] provider = "aws_s3" -> S3Download(rec, name, outs, hit)
         [] provider = "google_drive" -> GDriveDownload(rec, name, outs, hit)
         [] provider = "dropbox" -> DropboxDownload(rec, name, outs, hit)
         [] provider = "backblaze" -> BackblazeDownload(rec, name, outs, hit)

\* -------------------------------------------------------------- delete
Unlinked(hit) == IF hit = 0 THEN store ELSE RemoveAt(store, hit)

LocalDelete(rec, name, outs, hit) ==
    IF outs[1] # "ok" THEN [last |-> Single(rec, "false", outs[1]), store |-> store]
    ELSE IF hit = 0 THEN [last |-> [rec EXCEPT !.ret = "false"], store |-> store]
    ELSE [last |-> Single(rec, "true", "ok"), store |-> Unlinked(hit)]

S3Delete(rec, name, outs, hit) ==
    CASE client = "unset" -> [last |-> [rec EXCEPT !.ret = "raised"], store |-> store]
      [] client = "none" -> [last |-> [rec EXCEPT !.ret = "false"], store |-> store]
      [] OTHER ->
            LET r == Loop("s3_delete", outs, hit # 0)
            IN [last |-> WithLoop(rec, r),
                store |-> IF r.ret = "true" THEN Unlinked(hit) ELSE store]

\* one try, no loop
GDriveDelete(rec, name, outs, hit) ==
    IF client # "ready" THEN [last |-> [rec EXCEPT !.ret = "false"], store |-> store]
    ELSE IF outs[1] # "ok" THEN [last |-> Single(rec, "false", outs[1]), store |-> store]
    ELSE IF hit = 0 THEN [last |-> [rec EXCEPT !.ret = "false", !.attempts = 1], store |-> store]
    ELSE [last |-> Single(rec, "true", "ok"), store |-> Unlinked(hit)]

DropboxDelete(rec, name, outs, hit) ==
    IF client # "ready" THEN [last |-> [rec EXCEPT !.ret = "false"], store |-> store]
    ELSE IF outs[1] = "ok"
    THEN (IF hit = 0 THEN [last |-> Single(rec, "false", "404"), store |-> store]
          ELSE [last |-> Single(rec, "true", "ok"), store |-> Unlinked(hit)])
    ELSE [last |-> Single(rec, IF DropboxCaught(outs[1]) THEN "false" ELSE "raised", outs[1]),
          store |-> store]

\* delete_file_version(file_info.id_, ...): the newest version only
BackblazeDelete(rec, name, outs, hit) ==
    IF client # "ready" THEN [last |-> [rec EXCEPT !.ret = "false"], store |-> store]
    ELSE IF outs[1] = "ok"
    THEN (IF hit = 0 THEN [last |-> Single(rec, "false", "404"), store |-> store]
          ELSE [last |-> Single(rec, "true", "ok"), store |-> Unlinked(hit)])
    ELSE [last |-> Single(rec, IF BackblazeCaught(outs[1]) THEN "false" ELSE "raised", outs[1]),
          store |-> store]

DeleteResult(name, outs, hit) ==
    LET rec == [Idle EXCEPT !.op = "delete", !.name = name,
                            !.present = Present(store, name), !.during = tc]
    IN CASE provider = "local" -> LocalDelete(rec, name, outs, hit)
         [] provider = "aws_s3" -> S3Delete(rec, name, outs, hit)
         [] provider = "google_drive" -> GDriveDelete(rec, name, outs, hit)
         [] provider = "dropbox" -> DropboxDelete(rec, name, outs, hit)
         [] provider = "backblaze" -> BackblazeDelete(rec, name, outs, hit)

\* ---------------------------------------------------------- list_files
\* rglob('*') walks every file under base_path, dot-files too; the loop
\* stops once len(files) >= max_files.  An exception ends the walk after
\* `cut` entries.
LocalListFiles(prefix, max_files, out, cut) ==
    LET found == Take(Filter(store, prefix, "startswith"), max_files)
    IN [ret |-> "returned", files |-> NamesOf(IF out = "ok" THEN found ELSE Take(found, cut))]

\* paginate(Prefix=prefix, PaginationConfig={'MaxItems': max_files})
S3ListFiles(prefix, max_files, out, cut) ==
    CASE client = "unset" -> [ret |-> "raised", files |-> <<>>]
      [] client = "none" -> [ret |-> "returned", files |-> <<>>]
      [] OTHER ->
            LET found == Take(Filter(store, prefix, "startswith"), max_files)
            IN [ret |-> "returned",
                files |-> NamesOf(IF out = "ok" THEN found ELSE Take(found, cut))]

\* files().list(q="... name contains prefix", pageSize=max_files), one page
GDriveListFiles(prefix, max_files, out) ==
    IF client # "ready" \/ out # "ok" THEN [ret |-> "returned", files |-> <<>>]
    ELSE [ret |-> "returned", files |-> NamesOf(Take(Filter(store, prefix, "contains"), max_files))]

\* def list_files(self): the method takes neither prefix nor max_files, so
\* the call list_files(prefix, max_files) raises TypeError
DropboxListFiles(prefix, max_files, out) == [ret |-> "raised", files |-> <<>>]

BackblazeListFiles(prefix, max_files, out) == [ret |-> "raised", files |-> <<>>]

ListResult(prefix, max_files, out, cut) ==
    CASE provider = "local" -> LocalListFiles(prefix, max_files, out, cut)
      [] provider = "aws_s3" -> S3ListFiles(prefix, max_files, out, cut)
      [] provider = "google_drive" -> GDriveListFiles(prefix, max_files, out)
      [] provider = "dropbox" -> DropboxListFiles(prefix, max_files, out)
      [] provider = "backblaze" -> BackblazeListFiles(prefix, max_files, out)

\* ----------------------------------------------------- test_connection
\* head_bucket + list_objects_v2(MaxKeys=1); files().list(pageSize=1);
\* users_get_current_account(); bucket.ls(limit=1): reads only
RemoteTestConnection(out) ==
    CASE provider = "aws_s3" ->
            IF client = "unset" THEN "raised"
            ELSE IF client = "ready" /\ out = "ok" THEN "true" ELSE "false"
      [] provider = "google_drive" ->
            IF client = "ready" /\ out = "ok" THEN "true" ELSE "false"
      [] provider = "dropbox" ->
            IF client # "ready" THEN "false"
            ELSE IF out = "ok" THEN "true"
            ELSE IF DropboxCaught(out) THEN "false" ELSE "raised"
      [] provider = "backblaze" ->
            IF client # "ready" THEN "false"
            ELSE IF out = "ok" THEN "true"
            ELSE IF BackblazeCaught(out) THEN "false" ELSE "raised"

\* LocalProvider.test_connection, first statement: test_file.write_text('test')
LocalTestWriteText == Overwrite(store, Sentinel, SentinelText)

\* ... then read_text, compare, test_file.unlink()
LocalTestUnlink == SelectSeq(store, LAMBDA e : e.name # Sentinel)

\* ------------------------------------------------ archive and file names
Runs == {1, 2}
Timestamps == {"20240101_120000", "20240101_120001", "20240102_030000"}
NoPath == <<>>

\* the parts of a file name that pathlib takes for suffixes
Suffixes == {".tar", ".gz", ".encrypted", ".decrypted"}

\* f"homeserver_backup_{timestamp}.tar.gz"
BackupName(timestamp) == <<"homeserver_backup_", timestamp, ".tar", ".gz">>

\* pathlib's Path.with_suffix: the LAST suffix of the name is replaced, and
\* a name without a suffix gets one
WithSuffix(path, suffix) ==
    IF path # <<>> /\ path[Len(path)] \in Suffixes
    THEN SubSeq(path, 1, Len(path) - 1) \o <<suffix>>
    ELSE path \o <<suffix>>

\* encrypt_file with output_path = None
EncryptOutputPath(file_path) == WithSuffix(file_path, ".encrypted")

ArchiveOuts == {"ok", "mkdir", "add"}
EncryptOuts == {"ok", "error"}

\* no run builds an archive
NoNames ==
    /\ nmTs = [r \in Runs |-> "20240101_120000"]
    /\ nmKey = [r \in Runs |-> TRUE]
    /\ nmPc = [r \in Runs |-> "start"]
    /\ nmDir = {}
    /\ nmWrote = [r \in Runs |-> {}]
    /\ nmArchive = [r \in Runs |-> NoPath]
    /\ nmEncrypted = [r \in Runs |-> NoPath]

\* ---------------------------------------------------- retention settings
\* "retention": {"days": 30, "max_backups": 10}
DefaultRetentionDays == 30
DefaultMaxBackups == 10

\* the providers the service holds in self.providers
ServiceProviders == {"local", "dropbox"}
NoEntries == [p \in ServiceProviders |-> {}]

\* no cleanup is going on
NoCleanup ==
    /\ clStore = NoEntries
    /\ clStore0 = NoEntries
    /\ max_backups = DefaultMaxBackups
    /\ retention_days = DefaultRetentionDays
    /\ clPc = "idle"
    /\ clQueue = <<>>
    /\ clSelected = {}
    /\ clAttempted = {}
    /\ clRemoved = {}
    /\ clRaised = FALSE
    /\ clReturn = "none"
    /\ clDuring = FALSE
    /\ crPc = "idle"
    /\ crQueue = <<>>
    /\ crUploading = "none"

\* ------------------------------------------------------ the service
\* the names under "providers" of the configuration, in its order
ConfigNames == <<"local", "aws_s3", "dropbox">>
ConfigNameSet == {"local", "aws_s3", "dropbox"}

\* the keys of PROVIDERS
PROVIDERS == {"local", "google_drive", "google_cloud_storage", "dropbox", "backblaze"}

\* no service object exists
NoService ==
    /\ svcEnabled = {}
    /\ svcCtor = [n \in ConfigNameSet |-> "ok"]
    /\ svcTest = [n \in ConfigNameSet |-> "true"]
    /\ svcPc = "new"
    /\ svcInitQueue = <<>>
    /\ providers = <<>>
    /\ svcBuilt = {}
    /\ svcTestQueue = <<>>
    /\ svcTested = [n \in ConfigNameSet |-> 0]
    /\ all_success = TRUE

\* no archive is being built
NoArchive ==
    /\ backup_items = <<>>
    /\ arExists = {}
    /\ arPc = "start"
    /\ arTodo = <<>>
    /\ arMembers = <<>>
    /\ arFile = FALSE
    /\ arReturn = "none"

\* no file is being encrypted or decrypted
NoCrypt ==
    /\ cryPlain = <<>>
    /\ cryKey = "none"
    /\ cryFile = "absent"
    /\ cryChanged = "none"
    /\ cryDecKey = "none"
    /\ cryData = <<>>
    /\ cryOut0 = <<-3>>
    /\ cryOut = <<-3>>
    /\ cryPc = "plain"
    /\ cryFault = FALSE
    /\ cryReturn = "none"

\* no thread uses the connection pool
NoPool ==
    /\ connection_pool_size = 0
    /\ connection_pool = <<>>
    /\ poolPc = <<>>
    /\ poolHeld = <<>>
    /\ poolMade = 0

\* no provider with client-side encryption
NoEnc ==
    /\ encConfig = <<>>
    /\ encryption_enabled = FALSE
    /\ fernet = "None"
    /\ encPc = "new"
    /\ encBucket = <<>>
    /\ encTemp = FALSE
    /\ encLocal = "none"
    /\ encLast = <<>>

\* no configuration is being loaded
NoConfig ==
    /\ config_file = <<>>
    /\ cfgFile0 = <<>>
    /\ config = <<>>
    /\ cfgPc = "start"
    /\ cfgLoads = 0

NoExt == NoNames /\ NoCleanup /\ NoService /\ NoArchive /\ NoCrypt /\ NoPool /\ NoEnc /\ NoConfig

\* ============================================================== actions
\* How many backend attempts a call can make: max_retries inside a retry
\* loop, one otherwise.
OutLen(op) ==
    IF (provider = "aws_s3" /\ op \in {"init", "upload", "download", "delete"})
       \/ (provider = "google_drive" /\ op \in {"upload", "download"})
    THEN max_retries ELSE 1

Stored(s) == SelectSeq(s, LAMBDA e : e.name # Sentinel)

\* no backup run is going on
NoRun ==
    /\ runPc = "idle"
    /\ runDisk = {}
    /\ runMade = {}
    /\ runEnabled = {}
    /\ runStub = [p \in Providers |-> "ok"]
    /\ runQueue = <<>>
    /\ runAttempts = [p \in Providers |-> 0]
    /\ runResult = [p \in Providers |-> "none"]
    /\ runReturn = "none"

Init ==
    /\ provider \in Providers
    /\ max_retries \in 0..MaxRetries
    /\ retry_delay \in RetryDelays
    /\ client = "new"
    /\ store = <<>>
    /\ tc = "idle"
    /\ tcPre = <<>>
    /\ uploaded = [n \in Names |-> NoData]
    /\ last = Idle
    /\ NoRun
    /\ NoExt

\* ProviderClass(config)
Construct(cfgOk, outs) ==
    /\ client = "new"
    /\ LET r == ConstructResult(cfgOk, outs)
       IN /\ client' = r.client
          /\ last' = r.last
    /\ UNCHANGED <<provider, max_retries, retry_delay, store, tc, tcPre, uploaded>>
    /\ UNCHANGED runVars
    /\ UNCHANGED extVars

\* provider.upload(file_path, remote_name), file_path holding `data`
Upload(name, data, outs, large, folderOk) ==
    /\ client # "new"
    /\ LET r == UploadResult(name, data, outs, large, folderOk)
       IN /\ Len(Stored(r.store)) <= MaxObjects
          /\ store' = r.store
          /\ last' = [r.last EXCEPT !.changed = (r.store # store)]
          /\ uploaded' = IF r.last.ret = "true" THEN [uploaded EXCEPT ![name] = data]
                         ELSE uploaded
    /\ UNCHANGED <<provider, max_retries, retry_delay, client, tc, tcPre>>
    /\ UNCHANGED runVars
    /\ UNCHANGED extVars

\* provider.download(remote_name, local_path)
Download(name, outs, hit) ==
    /\ client # "new"
    /\ last' = DownloadResult(name, outs, hit)
    /\ UNCHANGED <<provider, max_retries, retry_delay, client, store, tc, tcPre, uploaded>>
    /\ UNCHANGED runVars
    /\ UNCHANGED extVars

\* provider.delete(remote_name)
Delete(name, outs, hit) ==
    /\ client # "new"
    /\ LET r == DeleteResult(name, outs, hit)
       IN /\ store' = r.store
          /\ last' = [r.last EXCEPT !.changed = (r.store # store)]
          /\ uploaded' = IF r.last.ret = "true" THEN [uploaded EXCEPT ![name] = NoData]
                         ELSE uploaded
    /\ UNCHANGED <<provider, max_retries, retry_delay, client, tc, tcPre>>
    /\ UNCHANGED runVars
    /\ UNCHANGED extVars

\* provider.list_files(prefix, max_files)
ListFiles(prefix, max_files, out, cut) ==
    /\ client # "new"
    /\ LET r == ListResult(prefix, max_files, out, cut)
       IN last' = [Idle EXCEPT !.op = "list", !.name = prefix, !.ret = r.ret,
                               !.listed = r.files, !.maxArg = max_files, !.during = tc]
    /\ UNCHANGED <<provider, max_retries, retry_delay, client, store, tc, tcPre, uploaded>>
    /\ UNCHANGED runVars
    /\ UNCHANGED extVars

\* provider.test_connection() of the remote providers
TestConnection(out) ==
    /\ client # "new"
    /\ provider # "local"
    /\ last' = [Idle EXCEPT !.op = "test_connection", !.ret = RemoteTestConnection(out)]
    /\ UNCHANGED <<provider, max_retries, retry_delay, client, store, tc, tcPre, uploaded>>
    /\ UNCHANGED runVars
    /\ UNCHANGED extVars

\* LocalProvider.test_connection up to and including write_text; other
\* callers of the same directory run between this step and the next
LocalTestWrite(out) ==
    /\ client # "new"
    /\ provider = "local"
    /\ tc = "idle"
    /\ IF out = "ok"
       THEN /\ store' = LocalTestWriteText
            /\ tc' = "written"
            /\ tcPre' = store
            /\ last' = last
       ELSE /\ last' = [Idle EXCEPT !.op = "test_connection", !.ret = "false"]
            /\ UNCHANGED <<store, tc, tcPre>>
    /\ UNCHANGED <<provider, max_retries, retry_delay, client, uploaded>>
    /\ UNCHANGED runVars
    /\ UNCHANGED extVars

\* LocalProvider.test_connection from read_text to its return; an
\* exception of read_text or unlink returns False with the file left behind
LocalTestFinish(out) ==
    /\ provider = "local"
    /\ tc = "written"
    /\ store' = IF out = "ok" THEN LocalTestUnlink ELSE store
    /\ tc' = "idle"
    /\ tcPre' = <<>>
    /\ last' = [Idle EXCEPT !.op = "test_connection",
                            !.ret = IF out = "ok" THEN "true" ELSE "false",
                            !.changed = (SentinelFiles(store') # SentinelFiles(tcPre))]
    /\ UNCHANGED <<provider, max_retries, retry_delay, client, uploaded>>
    /\ UNCHANGED runVars
    /\ UNCHANGED extVars

\* ------------------------------------------------------ specifications
LargeArgs == IF provider = "aws_s3" THEN BOOLEAN ELSE {FALSE}
FolderArgs == IF provider = "google_drive" THEN BOOLEAN ELSE {TRUE}
CutArgs(out) ==
    IF out # "ok" /\ provider \in {"local", "aws_s3"} THEN 0..Len(store) ELSE {0}
HitArgs == 0..(MaxObjects + 1)

\* config.get('max_retries', 3), config.get('retry_delay', 1.0)
DefaultMaxRetries == 3
DefaultRetryDelay == 1

\* A provider with the default retry configuration whose constructor
\* reached its backend.
InitReady ==
    /\ provider \in Providers
    /\ max_retries = DefaultMaxRetries
    /\ retry_delay = DefaultRetryDelay
    /\ client = "ready"
    /\ store = <<>>
    /\ tc = "idle"
    /\ tcPre = <<>>
    /\ uploaded = [n \in Names |-> NoData]
    /\ last = Idle
    /\ NoRun
    /\ NoExt

SameOuts(op) == {ConstSeq(OutLen(op), o) : o \in Outcomes}

\* Stored objects: the backend answers every attempt of a call ("ok"), or
\* fails every attempt with a service error.
StoreOuts(op) == {ConstSeq(OutLen(op), o) : o \in {"ok", "5xx"}}

Next ==
    \/ \E name \in Names, data \in Payloads, outs \in StoreOuts("upload"),
          large \in LargeArgs, folderOk \in FolderArgs :
            Upload(name, data, outs, large, folderOk)
    \/ \E name \in Names, outs \in StoreOuts("download"), hit \in HitArgs :
            hit \in Hits(store, name) /\ Download(name, outs, hit)
    \/ \E name \in Names, outs \in StoreOuts("delete"), hit \in HitArgs :
            hit \in Hits(store, name) /\ Delete(name, outs, hit)

Spec == InitReady /\ [][Next]_vars

\* Listing and connection tests over a store that uploads and deletes fill.
OkOuts(op) == {ConstSeq(OutLen(op), "ok")}
ListData == "b1"

NextList ==
    \/ \E name \in Names, outs \in OkOuts("upload") :
            Upload(name, ListData, outs, FALSE, TRUE)
    \/ \E name \in Names, outs \in OkOuts("delete"), hit \in HitArgs :
            hit \in Hits(store, name) /\ Delete(name, outs, hit)
    \/ \E prefix \in Prefixes, max_files \in 0..MaxObjects, out \in Outcomes :
          \E cut \in CutArgs(out) : ListFiles(prefix, max_files, out, cut)
    \/ \E out \in Outcomes : TestConnection(out)
    \/ \E out \in Outcomes : LocalTestWrite(out)
    \/ \E out \in Outcomes : LocalTestFinish(out)

SpecList == InitReady /\ [][NextList]_vars

\* Retry behaviour: every configuration, one name, one payload, every
\* sequence of answers of the backend.  An upload goes to a name not yet
\* stored; the multipart path and a failed folder lookup make one backend
\* call at most, so one answer is drawn for them.
RetryName == <<"x">>
RetryData == "b1"

NextRetry ==
    \/ \E cfgOk \in BOOLEAN, outs \in OutSeqs(OutLen("init")) : Construct(cfgOk, outs)
    \/ \E outs \in OutSeqs(OutLen("upload")), large \in LargeArgs, folderOk \in FolderArgs :
            /\ ~Present(store, RetryName)
            /\ (large \/ ~folderOk) => outs \in SameOuts("upload")
            /\ Upload(RetryName, RetryData, outs, large, folderOk)
    \/ \E outs \in OutSeqs(OutLen("download")), hit \in HitArgs :
            hit \in Hits(store, RetryName) /\ Download(RetryName, outs, hit)
    \/ \E outs \in OutSeqs(OutLen("delete")), hit \in HitArgs :
            hit \in Hits(store, RetryName) /\ Delete(RetryName, outs, hit)

SpecRetry == Init /\ [][NextRetry]_vars

\* ------------------------------------------------------ one backup run
\* the providers of the default configuration, in its order
ProviderOrder == <<"local", "aws_s3", "google_drive", "dropbox", "backblaze">>
StubBehaviours == {"ok", "false", "raise"}

NoProvider ==
    /\ provider = "local"
    /\ max_retries = DefaultMaxRetries
    /\ retry_delay = DefaultRetryDelay
    /\ client = "new"
    /\ store = <<>>
    /\ tc = "idle"
    /\ tcPre = <<>>
    /\ uploaded = [n \in Names |-> NoData]
    /\ last = Idle

\* the enabled providers, in configuration order
EnabledInOrder(enabled) == SelectSeq(ProviderOrder, LAMBDA p : p \in enabled)

\* The engine wraps each provider call: a false result and an exception
\* both become success = false, and the iteration goes on.
GuardedUpload(behaviour) == IF behaviour = "ok" THEN "true" ELSE "false"

\* BackupService.create_backup: True when the engine returned a path
ServiceCreateBackup(backup_path) == IF backup_path THEN "true" ELSE "false"

\* the archive step of a run: LocalProvider.create_backup leaves the file it
\* opened in place, also when it fails ("add") and returns None
RunArchive(out) ==
    /\ runPc = "new"
    /\ runPc' = IF out = "ok" THEN "archived" ELSE "failed"
    /\ runDisk' = IF out # "mkdir" THEN runDisk \cup {"archive"} ELSE runDisk
    /\ runMade' = IF out # "mkdir" THEN runMade \cup {"archive"} ELSE runMade
    /\ runReturn' = IF out = "ok" THEN runReturn ELSE ServiceCreateBackup(FALSE)
    /\ UNCHANGED <<runEnabled, runStub, runQueue, runAttempts, runResult>>
    /\ UNCHANGED provVars
    /\ UNCHANGED extVars

\* "nokey": get_suk_key() is None; "error": encrypt_file caught an exception
RunEncryptOuts == {"ok", "nokey", "error"}

\* the encryption step: encrypt_file writes the encrypted file beside the
\* archive, which it does not remove; without a key (or on an error) it
\* returns None and the run goes on with the archive
RunEncrypt(out) ==
    /\ runPc = "archived"
    /\ runPc' = "idle"
    /\ runDisk' = IF out = "ok" THEN runDisk \cup {"encrypted"} ELSE runDisk
    /\ runMade' = IF out = "ok" THEN runMade \cup {"encrypted"} ELSE runMade
    /\ UNCHANGED <<runEnabled, runStub, runQueue, runAttempts, runResult, runReturn>>
    /\ UNCHANGED provVars
    /\ UNCHANGED extVars

\* create_backup: the archive is built (and encrypted), then the fan-out
\* over the enabled providers begins
RunStart ==
    /\ runPc = "idle"
    /\ runPc' = "uploading"
    /\ runQueue' = EnabledInOrder(runEnabled)
    /\ UNCHANGED <<runDisk, runMade, runEnabled, runStub, runAttempts, runResult, runReturn>>
    /\ UNCHANGED provVars
    /\ UNCHANGED extVars

\* a fan-out that a failed provider ends: the providers after it are skipped
RunUploadStopsAtFailure ==
    /\ runPc = "uploading"
    /\ runQueue # <<>>
    /\ LET p == Head(runQueue)
       IN /\ runAttempts' = [runAttempts EXCEPT ![p] = @ + 1]
          /\ runResult' = [runResult EXCEPT ![p] = GuardedUpload(runStub[p])]
          /\ runQueue' = IF runStub[p] = "ok" THEN Tail(runQueue) ELSE <<>>
    /\ UNCHANGED <<runPc, runDisk, runMade, runEnabled, runStub, runReturn>>
    /\ UNCHANGED provVars
    /\ UNCHANGED extVars

\* the upload of the one artifact to the next enabled provider
RunUpload ==
    /\ runPc = "uploading"
    /\ runQueue # <<>>
    /\ LET p == Head(runQueue)
       IN /\ runAttempts' = [runAttempts EXCEPT ![p] = @ + 1]
          /\ runResult' = [runResult EXCEPT ![p] = GuardedUpload(runStub[p])]
    /\ runQueue' = Tail(runQueue)
    /\ UNCHANGED <<runPc, runDisk, runMade, runEnabled, runStub, runReturn>>
    /\ UNCHANGED provVars
    /\ UNCHANGED extVars

\* the path the engine hands back: one when some provider took the artifact
RunBackupPath == \E p \in runEnabled : runResult[p] = "true"

\* the file handed to the providers: the encrypted one when there is one
RunArtifact == IF "encrypted" \in runDisk THEN "encrypted" ELSE "archive"

\* an end of run that removes the uploaded file alone
RunFinishKeepsArchive ==
    /\ runPc = "uploading"
    /\ runQueue = <<>>
    /\ runPc' = "done"
    /\ runDisk' = runDisk \ {RunArtifact}
    /\ runReturn' = ServiceCreateBackup(RunBackupPath)
    /\ UNCHANGED <<runMade, runEnabled, runStub, runQueue, runAttempts, runResult>>
    /\ UNCHANGED provVars
    /\ UNCHANGED extVars

\* every enabled provider was attempted: the run removes its working files
\* and ends
RunFinish ==
    /\ runPc = "uploading"
    /\ runQueue = <<>>
    /\ runPc' = "done"
    /\ runDisk' = {}
    /\ runReturn' = ServiceCreateBackup(RunBackupPath)
    /\ UNCHANGED <<runMade, runEnabled, runStub, runQueue, runAttempts, runResult>>
    /\ UNCHANGED provVars
    /\ UNCHANGED extVars

InitRun ==
    /\ NoProvider
    /\ NoExt
    /\ runPc = "new"
    /\ runDisk = {}
    /\ runMade = {}
    /\ runEnabled \in SUBSET Providers
    /\ runStub \in [Providers -> StubBehaviours]
    /\ \A p \in Providers \ runEnabled : runStub[p] = "ok"
    /\ runQueue = <<>>
    /\ runAttempts = [p \in Providers |-> 0]
    /\ runResult = [p \in Providers |-> "none"]
    /\ runReturn = "none"

NextRun ==
    \/ \E out \in ArchiveOuts : RunArchive(out)
    \/ \E out \in RunEncryptOuts : RunEncrypt(out)
    \/ RunStart
    \/ RunUpload
    \/ RunFinish

SpecRun == InitRun /\ [][NextRun]_vars

\* -------------------------------------- two runs in one backup directory
\* LocalProvider.create_backup(backup_items, timestamp) of run r.  out: "ok",
\* "mkdir" (base_path.mkdir raises) or "add" (tar.add raises after the file
\* was opened for writing)
ArchiveStep(r, out) ==
    /\ nmPc[r] = "start"
    /\ LET backup_path == BackupName(nmTs[r])
           opened == out # "mkdir"
       IN /\ nmDir' = IF opened THEN nmDir \cup {backup_path} ELSE nmDir
          /\ nmWrote' = IF opened THEN [nmWrote EXCEPT ![r] = @ \cup {backup_path}]
                        ELSE nmWrote
          /\ nmArchive' = [nmArchive EXCEPT ![r] = IF out = "ok" THEN backup_path ELSE NoPath]
          /\ nmPc' = [nmPc EXCEPT ![r] = IF out = "ok" THEN "archived" ELSE "done"]
    /\ UNCHANGED <<nmTs, nmKey, nmEncrypted>>
    /\ UNCHANGED <<provVars, runVars, cleanVars, svcVars, archVars, cryVars, poolVars, encVars, cfgVars>>

\* EncryptionManager.encrypt_file(file_path) of run r on its archive, with
\* the default output path.  out: "ok" or "error" (an exception of the read,
\* of fernet or of the write)
EncryptStep(r, out) ==
    /\ nmPc[r] = "archived"
    /\ LET output_path == EncryptOutputPath(nmArchive[r])
           written == nmKey[r] /\ out = "ok"
       IN /\ nmDir' = IF written THEN nmDir \cup {output_path} ELSE nmDir
          /\ nmWrote' = IF written THEN [nmWrote EXCEPT ![r] = @ \cup {output_path}]
                        ELSE nmWrote
          /\ nmEncrypted' = [nmEncrypted EXCEPT ![r] = IF written THEN output_path ELSE NoPath]
    /\ nmPc' = [nmPc EXCEPT ![r] = "done"]
    /\ UNCHANGED <<nmTs, nmKey, nmArchive>>
    /\ UNCHANGED <<provVars, runVars, cleanVars, svcVars, archVars, cryVars, poolVars, encVars, cfgVars>>

InitNames ==
    /\ NoProvider
    /\ NoRun
    /\ NoConfig
    /\ NoEnc
    /\ NoPool
    /\ NoCrypt
    /\ NoCleanup
    /\ NoService
    /\ NoArchive
    /\ nmTs \in [Runs -> Timestamps]
    /\ nmKey \in [Runs -> BOOLEAN]
    /\ nmPc = [r \in Runs |-> "start"]
    /\ nmDir = {}
    /\ nmWrote = [r \in Runs |-> {}]
    /\ nmArchive = [r \in Runs |-> NoPath]
    /\ nmEncrypted = [r \in Runs |-> NoPath]

NextNames ==
    \/ \E r \in Runs, out \in ArchiveOuts : ArchiveStep(r, out)
    \/ \E r \in Runs, out \in EncryptOuts : EncryptStep(r, out)

SpecNames == InitNames /\ [][NextNames]_vars

\* --------------------------------------------------- cleanup_old_backups
MaxTime == 5
MaxKeep == 2
Times == 1..MaxTime
\* the modification time of what a run uploads now: newer than every backup
Now == MaxTime + 1

\* one element of list_backups(): 'provider', 'mtime' and the 'name', which
\* the timestamp of the backup determines
Backup(p, t) == [provider |-> p, mtime |-> t]

\* list_backups(): the backups of every provider
Held(st) == {Backup(p, t) : p \in ServiceProviders, t \in Times \cup {Now}} \cap
            {b \in [provider : ServiceProviders, mtime : Times \cup {Now}] : b.mtime \in st[b.provider]}

Position(seq, x) == CHOOSE i \in 1..Len(seq) : seq[i] = x

\* b comes before c in backups.sort(key=mtime, reverse=True): the sort is
\* stable, so backups of equal mtime stay in the order of the list
Before(b, c, listOrder) ==
    \/ b.mtime > c.mtime
    \/ b.mtime = c.mtime /\ Position(listOrder, b.provider) < Position(listOrder, c.provider)

RECURSIVE SortNewestFirst(_, _)
SortNewestFirst(S, listOrder) ==
    IF S = {} THEN <<>>
    ELSE LET first == CHOOSE b \in S : \A c \in S \ {b} : Before(b, c, listOrder)
         IN <<first>> \o SortNewestFirst(S \ {first}, listOrder)

\* backups[max_backups:] when len(backups) > max_backups
BackupsToRemove(backups, listOrder) ==
    IF Len(backups) > max_backups
    THEN SubSeq(backups, max_backups + 1, Len(backups))
    ELSE <<>>

ListOrders == {<<"local", "dropbox">>, <<"dropbox", "local">>}

\* cleanup_old_backups up to the first delete: list_backups(), the sort,
\* the selection
CleanupList(listOrder) ==
    /\ clPc = "idle"
    /\ LET backups == SortNewestFirst(Held(clStore), listOrder)
           backups_to_remove == BackupsToRemove(backups, listOrder)
       IN /\ clQueue' = backups_to_remove
          /\ clSelected' = Range(backups_to_remove)
          /\ clPc' = IF backups_to_remove = <<>> THEN "done" ELSE "deleting"
          /\ clReturn' = IF backups_to_remove = <<>> THEN "true" ELSE clReturn
    /\ clStore0' = clStore
    /\ clDuring' = (crPc = "uploading")
    /\ UNCHANGED <<clStore, max_backups, retention_days, clAttempted, clRemoved, clRaised,
                   crPc, crQueue, crUploading>>
    /\ UNCHANGED <<provVars, runVars, nameVars, svcVars, archVars, cryVars, poolVars, encVars, cfgVars>>

\* what provider.delete(name) can do: LocalProvider.delete catches every
\* exception, DropboxProvider.delete only ApiError and AuthError
DeleteOuts(p) == IF p = "local" THEN {"ok", "false"} ELSE {"ok", "false", "raise"}

\* one iteration of `for backup in backups_to_remove`, and the return when
\* it was the last or when the delete raised
CleanupDelete(out) ==
    /\ clPc = "deleting"
    /\ clQueue # <<>>
    /\ LET backup == Head(clQueue)
       IN /\ out \in DeleteOuts(backup.provider)
          /\ clAttempted' = clAttempted \cup {backup}
          /\ clRemoved' = IF out = "ok" THEN clRemoved \cup {backup} ELSE clRemoved
          /\ clStore' = IF out = "ok"
                        THEN [clStore EXCEPT ![backup.provider] = @ \ {backup.mtime}]
                        ELSE clStore
    /\ clRaised' = (out = "raise")
    /\ clQueue' = Tail(clQueue)
    /\ clPc' = IF out = "raise" \/ Tail(clQueue) = <<>> THEN "done" ELSE "deleting"
    /\ clReturn' = IF out = "raise" THEN "false"
                   ELSE IF Tail(clQueue) = <<>> THEN "true" ELSE clReturn
    /\ UNCHANGED <<clStore0, max_backups, retention_days, clSelected, clDuring,
                   crPc, crQueue, crUploading>>
    /\ UNCHANGED <<provVars, runVars, nameVars, svcVars, archVars, cryVars, poolVars, encVars, cfgVars>>

Total(st) == Cardinality(Held(st))

RetentionDays == {2, MaxTime + 1}

InitCleanup ==
    /\ NoProvider
    /\ NoRun
    /\ NoConfig
    /\ NoEnc
    /\ NoPool
    /\ NoCrypt
    /\ NoNames
    /\ NoService
    /\ NoArchive
    /\ clStore \in [ServiceProviders -> SUBSET Times]
    /\ Total(clStore) <= MaxTime
    /\ clStore0 = clStore
    /\ max_backups \in 0..MaxKeep
    /\ retention_days \in RetentionDays
    /\ clPc = "idle"
    /\ clQueue = <<>>
    /\ clSelected = {}
    /\ clAttempted = {}
    /\ clRemoved = {}
    /\ clRaised = FALSE
    /\ clReturn = "none"
    /\ clDuring = FALSE
    /\ crPc = "idle"
    /\ crQueue = <<>>
    /\ crUploading = "none"

NextCleanup ==
    \/ \E listOrder \in ListOrders : CleanupList(listOrder)
    \/ \E out \in {"ok", "false", "raise"} : CleanupDelete(out)

SpecCleanup == InitCleanup /\ [][NextCleanup]_vars

\* ------------------------------------------- a backup run beside cleanup
\* the run begins its fan-out over the providers, in configuration order
CrStart(order) ==
    /\ crPc = "idle"
    /\ crPc' = "uploading"
    /\ crQueue' = order
    /\ UNCHANGED <<clStore, clStore0, max_backups, retention_days, clPc, clQueue, clSelected,
                   clAttempted, clRemoved, clRaised, clReturn, clDuring, crUploading>>
    /\ UNCHANGED <<provVars, runVars, nameVars, svcVars, archVars, cryVars, poolVars, encVars, cfgVars>>

\* provider.upload begins.  LocalProvider.upload copies into the backup
\* directory (shutil.copy2): the file is there, and listed, while it is
\* written.  files_upload of Dropbox shows nothing before it completes.
CrBeginUpload ==
    /\ crPc = "uploading"
    /\ crUploading = "none"
    /\ crQueue # <<>>
    /\ LET p == Head(crQueue)
       IN /\ crUploading' = p
          /\ clStore' = IF p = "local" THEN [clStore EXCEPT ![p] = @ \cup {Now}] ELSE clStore
    /\ crQueue' = Tail(crQueue)
    /\ UNCHANGED <<clStore0, max_backups, retention_days, clPc, clQueue, clSelected,
                   clAttempted, clRemoved, clRaised, clReturn, clDuring, crPc>>
    /\ UNCHANGED <<provVars, runVars, nameVars, svcVars, archVars, cryVars, poolVars, encVars, cfgVars>>

\* provider.upload returns True
CrEndUpload ==
    /\ crPc = "uploading"
    /\ crUploading # "none"
    /\ clStore' = IF crUploading = "local" THEN clStore
                  ELSE [clStore EXCEPT ![crUploading] = @ \cup {Now}]
    /\ crUploading' = "none"
    /\ crPc' = IF crQueue = <<>> THEN "done" ELSE "uploading"
    /\ UNCHANGED <<clStore0, max_backups, retention_days, clPc, clQueue, clSelected,
                   clAttempted, clRemoved, clRaised, clReturn, clDuring, crQueue>>
    /\ UNCHANGED <<provVars, runVars, nameVars, svcVars, archVars, cryVars, poolVars, encVars, cfgVars>>

InitCleanupRun ==
    /\ NoProvider
    /\ NoRun
    /\ NoConfig
    /\ NoEnc
    /\ NoPool
    /\ NoCrypt
    /\ NoNames
    /\ NoService
    /\ NoArchive
    /\ clStore \in [ServiceProviders -> SUBSET Times]
    /\ Total(clStore) <= MaxKeep
    /\ clStore0 = clStore
    /\ max_backups \in 0..MaxKeep
    /\ retention_days = MaxTime + 1
    /\ clPc = "idle"
    /\ clQueue = <<>>
    /\ clSelected = {}
    /\ clAttempted = {}
    /\ clRemoved = {}
    /\ clRaised = FALSE
    /\ clReturn = "none"
    /\ clDuring = FALSE
    /\ crPc = "idle"
    /\ crQueue = <<>>
    /\ crUploading = "none"

NextCleanupRun ==
    \/ \E listOrder \in ListOrders : CleanupList(listOrder)
    \/ \E out \in {"ok", "false", "raise"} : CleanupDelete(out)
    \/ \E order \in ListOrders : CrStart(order)
    \/ CrBeginUpload
    \/ CrEndUpload

SpecCleanupRun == InitCleanupRun /\ [][NextCleanupRun]_vars

\* ------------------------------------------------------- BackupService
\* What the constructor of a provider class does: "ok"; "invalid" (a
\* required field is missing: DropboxProvider prints an error and keeps
\* dbx = None); "raise" (LocalProvider: base_path.mkdir raises)
CtorBehaviours(n) ==
    CASE n = "local" -> {"ok", "raise"}
      [] n = "dropbox" -> {"ok", "invalid"}
      [] OTHER -> {"ok"}

\* What test_connection of an instance does: LocalProvider catches every
\* exception, DropboxProvider only ApiError and AuthError
TestBehaviours(n) ==
    CASE n = "dropbox" -> {"true", "false", "raise"}
      [] OTHER -> {"true", "false"}

\* get_provider(provider_name, config): "unknown" is its ValueError
GetProvider(n) ==
    IF n \notin PROVIDERS THEN "unknown" ELSE svcCtor[n]

\* BackupService.__init__ up to the loop of _initialize_providers
ServiceNew ==
    /\ svcPc = "new"
    /\ svcPc' = "initializing"
    /\ svcInitQueue' = ConfigNames
    /\ providers' = <<>>
    /\ UNCHANGED <<svcEnabled, svcCtor, svcTest, svcBuilt, svcTestQueue, svcTested,
                   all_success>>
    /\ UNCHANGED <<provVars, runVars, nameVars, cleanVars, archVars, cryVars, poolVars, encVars, cfgVars>>

\* one iteration of the loop of _initialize_providers
InitializeProvider ==
    /\ svcPc = "initializing"
    /\ svcInitQueue # <<>>
    /\ LET provider_name == Head(svcInitQueue)
           got == GetProvider(provider_name)
       IN IF provider_name \notin svcEnabled
          THEN UNCHANGED <<providers, svcBuilt>>
          ELSE /\ svcBuilt' = IF got = "unknown" THEN svcBuilt
                              ELSE svcBuilt \cup {provider_name}
               /\ providers' = IF got \in {"unknown", "raise"} THEN providers
                               ELSE Append(providers, provider_name)
    /\ svcInitQueue' = Tail(svcInitQueue)
    /\ svcPc' = IF Tail(svcInitQueue) = <<>> THEN "ready" ELSE "initializing"
    /\ UNCHANGED <<svcEnabled, svcCtor, svcTest, svcTestQueue, svcTested, all_success>>
    /\ UNCHANGED <<provVars, runVars, nameVars, cleanVars, archVars, cryVars, poolVars, encVars, cfgVars>>

\* BackupService.test_connection up to its loop; without providers it
\* returns all_success at once
ServiceTestStart ==
    /\ svcPc = "ready"
    /\ svcPc' = IF providers = <<>> THEN "tested" ELSE "testing"
    /\ svcTestQueue' = providers
    /\ all_success' = TRUE
    /\ UNCHANGED <<svcEnabled, svcCtor, svcTest, svcInitQueue, providers, svcBuilt, svcTested>>
    /\ UNCHANGED <<provVars, runVars, nameVars, cleanVars, archVars, cryVars, poolVars, encVars, cfgVars>>

\* try: success = provider.test_connection() ... except Exception: a false
\* result and an exception both clear all_success
GuardedTest(behaviour) == IF behaviour = "true" THEN "true" ELSE "false"

\* one iteration of the loop of test_connection, and the return after the
\* last
ServiceTestOne ==
    /\ svcPc = "testing"
    /\ svcTestQueue # <<>>
    /\ LET provider_name == Head(svcTestQueue)
           success == GuardedTest(svcTest[provider_name])
       IN /\ svcTested' = [svcTested EXCEPT ![provider_name] = @ + 1]
          /\ all_success' = (all_success /\ success = "true")
          /\ svcPc' = IF success = "raised" THEN "raised"
                      ELSE IF Tail(svcTestQueue) = <<>> THEN "tested" ELSE "testing"
    /\ svcTestQueue' = Tail(svcTestQueue)
    /\ UNCHANGED <<svcEnabled, svcCtor, svcTest, svcInitQueue, providers, svcBuilt>>
    /\ UNCHANGED <<provVars, runVars, nameVars, cleanVars, archVars, cryVars, poolVars, encVars, cfgVars>>

InitService ==
    /\ NoProvider
    /\ NoRun
    /\ NoConfig
    /\ NoEnc
    /\ NoPool
    /\ NoCrypt
    /\ NoNames
    /\ NoCleanup
    /\ NoArchive
    /\ svcEnabled \in SUBSET ConfigNameSet
    /\ svcCtor \in [ConfigNameSet -> {"ok", "invalid", "raise"}]
    /\ \A n \in ConfigNameSet : svcCtor[n] \in CtorBehaviours(n)
    /\ svcTest \in [ConfigNameSet -> {"true", "false", "raise"}]
    /\ \A n \in ConfigNameSet : svcTest[n] \in TestBehaviours(n)
    /\ svcPc = "new"
    /\ svcInitQueue = <<>>
    /\ providers = <<>>
    /\ svcBuilt = {}
    /\ svcTestQueue = <<>>
    /\ svcTested = [n \in ConfigNameSet |-> 0]
    /\ all_success = TRUE

NextService ==
    \/ ServiceNew
    \/ InitializeProvider
    \/ ServiceTestStart
    \/ ServiceTestOne

SpecService == InitService /\ [][NextService]_vars

\* ------------------------------------------- LocalProvider.create_backup
MaxItems == 2

\* input paths: a directory and a base name
ItemPaths == {<<"var", "src">>, <<"etc", "src">>, <<"etc", "gogs">>}

\* Path(item).name
BaseName(path) == path[Len(path)]

\* the path create_backup builds its archive at
ArchivePath == BackupName("20240101_120000")

\* base_path.mkdir and tarfile.open(backup_path, "w:gz"); out = "error": an
\* exception before the file exists
ArchiveOpen(out) ==
    /\ arPc = "start"
    /\ arPc' = IF out = "ok" THEN "open" ELSE "done"
    /\ arFile' = (out = "ok")
    /\ arTodo' = IF out = "ok" THEN backup_items ELSE <<>>
    /\ arReturn' = IF out = "ok" THEN arReturn ELSE NoPath
    /\ UNCHANGED <<backup_items, arExists, arMembers>>
    /\ UNCHANGED <<provVars, runVars, nameVars, cleanVars, svcVars, cryVars, poolVars, encVars, cfgVars>>

\* one iteration of `for item in backup_items`; out = "error": tar.add
\* raises, create_backup returns None and the file stays
ArchiveAdd(out) ==
    /\ arPc = "open"
    /\ arTodo # <<>>
    /\ LET item == Head(arTodo)
       IN IF item \notin arExists
          THEN /\ out = "ok"
               /\ UNCHANGED <<arMembers, arPc, arReturn>>
          ELSE /\ arMembers' = IF out = "ok"
                               THEN Append(arMembers, [arcname |-> BaseName(item), source |-> item])
                               ELSE arMembers
               /\ arPc' = IF out = "ok" THEN "open" ELSE "done"
               /\ arReturn' = IF out = "ok" THEN arReturn ELSE NoPath
    /\ arTodo' = Tail(arTodo)
    /\ UNCHANGED <<backup_items, arExists, arFile>>
    /\ UNCHANGED <<provVars, runVars, nameVars, cleanVars, svcVars, cryVars, poolVars, encVars, cfgVars>>

\* the end of the loop: the tarfile is closed, return backup_path
ArchiveClose ==
    /\ arPc = "open"
    /\ arTodo = <<>>
    /\ arPc' = "done"
    /\ arReturn' = ArchivePath
    /\ UNCHANGED <<backup_items, arExists, arTodo, arMembers, arFile>>
    /\ UNCHANGED <<provVars, runVars, nameVars, cleanVars, svcVars, cryVars, poolVars, encVars, cfgVars>>

ItemLists == UNION {[1..n -> ItemPaths] : n \in 0..MaxItems}

InitArchive ==
    /\ NoProvider
    /\ NoRun
    /\ NoConfig
    /\ NoEnc
    /\ NoPool
    /\ NoCrypt
    /\ NoNames
    /\ NoCleanup
    /\ NoService
    /\ backup_items \in ItemLists
    /\ arExists \in SUBSET ItemPaths
    /\ arPc = "start"
    /\ arTodo = <<>>
    /\ arMembers = <<>>
    /\ arFile = FALSE
    /\ arReturn = "none"

NextArchive ==
    \/ \E out \in {"ok", "error"} : ArchiveOpen(out)
    \/ \E out \in {"ok", "error"} : ArchiveAdd(out)
    \/ ArchiveClose

SpecArchive == InitArchive /\ [][NextArchive]_vars

\* ------------------------------------------------- EncryptionManager
\* the keys get_suk_key derives from the keyman password; NoKey: None
Keys == {"k1", "k2"}
NoKey == "None"

\* the files encrypt_file reads: empty, one byte, two blocks of AES
Plains == {<<>>, <<7>>, ConstSeq(32, 7)}

\* what the output path of decrypt_file holds beforehand
Absent == <<-3>>
OldOutputs == {Absent, <<9>>}

\* the bytes of a Fernet token of x: version, timestamp, IV, the padded
\* ciphertext and the HMAC
TokenBytes(x) == 1 + 8 + 16 + 16 * ((Len(x) \div 16) + 1) + 32

\* the token is written as base64 text: when its bytes are no multiple of
\* three, the last character before the padding carries bits the decoder
\* does not read
HasSlack(x) == TokenBytes(x) % 3 # 0

\* HMAC of the version, the timestamp, the IV and the ciphertext
Mac(key, token) ==
    [key |-> key,
     signed |-> <<token.version, token.timestamp, token.iv, token.ciphertext>>,
     changed |-> FALSE]

\* fernet.encrypt(x) under key
FernetEncrypt(key, x) ==
    LET body == [version |-> 128, timestamp |-> "t", iv |-> "iv",
                 ciphertext |-> [key |-> key, data |-> x, changed |-> FALSE],
                 slack |-> 0, bytes |-> TokenBytes(x)]
    IN [version |-> body.version, timestamp |-> body.timestamp, iv |-> body.iv,
        ciphertext |-> body.ciphertext, slack |-> body.slack, bytes |-> body.bytes,
        hmac |-> Mac(key, body)]

\* outcomes that are no byte string: the InvalidToken exception, and bytes
\* other than the plaintext
InvalidToken == <<-1>>
Garbled == <<-2>>

\* AES-CBC decryption of the ciphertext
AESDecrypt(key, ciphertext) ==
    IF ciphertext.key = key /\ ~ciphertext.changed THEN ciphertext.data ELSE Garbled

\* fernet.decrypt without the verification of the HMAC
FernetDecryptUnverified(key, token) ==
    IF token.version # 128 THEN InvalidToken
    ELSE AESDecrypt(key, token.ciphertext)

\* fernet.decrypt(token) under key: the base64 text is decoded (the slack
\* bits are not read), the version and the HMAC are verified, and only then
\* the ciphertext is decrypted
FernetDecrypt(key, token) ==
    IF token.version # 128 THEN InvalidToken
    ELSE IF token.hmac # Mac(key, token) THEN InvalidToken
    ELSE AESDecrypt(key, token.ciphertext)

\* the parts of a token a byte of the file belongs to
TokenParts == {"version", "timestamp", "iv", "ciphertext", "hmac", "slack"}

\* the token with one byte of that part changed
ChangeByte(token, part) ==
    CASE part = "version" -> [token EXCEPT !.version = 129]
      [] part = "timestamp" -> [token EXCEPT !.timestamp = "u"]
      [] part = "iv" -> [token EXCEPT !.iv = "iw"]
      [] part = "ciphertext" -> [token EXCEPT !.ciphertext.changed = TRUE]
      [] part = "hmac" -> [token EXCEPT !.hmac.changed = TRUE]
      [] part = "slack" -> [token EXCEPT !.slack = 1]

\* encrypt_file(file_path): the token of the file's bytes is written
EncryptFile ==
    /\ cryPc = "plain"
    /\ cryFile' = FernetEncrypt(cryKey, cryPlain)
    /\ cryPc' = "encrypted"
    /\ UNCHANGED <<cryPlain, cryKey, cryChanged, cryDecKey, cryData, cryOut0, cryOut,
                   cryFault, cryReturn>>
    /\ UNCHANGED <<provVars, runVars, nameVars, cleanVars, svcVars, archVars, poolVars, encVars, cfgVars>>

\* one byte of the encrypted file is changed between the two calls
ChangeFile ==
    /\ cryPc = "encrypted"
    /\ cryChanged = "none"
    /\ \E part \in TokenParts :
        /\ part = "slack" => HasSlack(cryPlain)
        /\ cryFile' = ChangeByte(cryFile, part)
        /\ cryChanged' = part
    /\ UNCHANGED <<cryPlain, cryKey, cryDecKey, cryData, cryOut0, cryOut, cryPc,
                   cryFault, cryReturn>>
    /\ UNCHANGED <<provVars, runVars, nameVars, cleanVars, svcVars, archVars, poolVars, encVars, cfgVars>>

\* decrypt_file before the output is opened, writing the output first
DecryptFileOpensOutputFirst ==
    /\ cryPc = "encrypted"
    /\ \E key \in Keys \cup {NoKey} :
        /\ cryDecKey' = key
        /\ IF key = NoKey
           THEN /\ cryPc' = "done"
                /\ cryReturn' = NoPath
                /\ UNCHANGED <<cryData, cryOut>>
           ELSE LET data == FernetDecrypt(key, cryFile)
                IN /\ cryOut' = <<>>
                   /\ IF data = InvalidToken
                      THEN /\ cryPc' = "done"
                           /\ cryReturn' = NoPath
                           /\ UNCHANGED cryData
                      ELSE /\ cryPc' = "authenticated"
                           /\ cryData' = data
                           /\ UNCHANGED cryReturn
    /\ UNCHANGED <<cryPlain, cryKey, cryFile, cryChanged, cryOut0, cryFault>>
    /\ UNCHANGED <<provVars, runVars, nameVars, cleanVars, svcVars, archVars, poolVars, encVars, cfgVars>>

\* decrypt_file up to fernet.decrypt(f.read()): no key, or a token that
\* does not verify, returns None before the output path is opened
DecryptFileRead ==
    /\ cryPc = "encrypted"
    /\ \E key \in Keys \cup {NoKey} :
        /\ cryDecKey' = key
        /\ IF key = NoKey
           THEN /\ cryPc' = "done"
                /\ cryReturn' = NoPath
                /\ UNCHANGED cryData
           ELSE LET data == FernetDecrypt(key, cryFile)
                IN IF data = InvalidToken
                   THEN /\ cryPc' = "done"
                        /\ cryReturn' = NoPath
                        /\ UNCHANGED cryData
                   ELSE /\ cryPc' = "authenticated"
                        /\ cryData' = data
                        /\ UNCHANGED cryReturn
    /\ UNCHANGED <<cryPlain, cryKey, cryFile, cryChanged, cryOut0, cryOut, cryFault>>
    /\ UNCHANGED <<provVars, runVars, nameVars, cleanVars, svcVars, archVars, poolVars, encVars, cfgVars>>

\* decrypt_file from open(output_path, "wb") on; out = "error": the write
\* raises after the file was opened, and decrypt_file returns None
DecryptFileWrite ==
    /\ cryPc = "authenticated"
    /\ \E out \in {"ok", "error"} :
        /\ cryOut' = IF out = "ok" THEN cryData ELSE <<>>
        /\ cryFault' = (out = "error")
        /\ cryReturn' = IF out = "ok" THEN <<"out", ".decrypted">> ELSE NoPath
    /\ cryPc' = "done"
    /\ UNCHANGED <<cryPlain, cryKey, cryFile, cryChanged, cryDecKey, cryData, cryOut0>>
    /\ UNCHANGED <<provVars, runVars, nameVars, cleanVars, svcVars, archVars, poolVars, encVars, cfgVars>>

InitCrypt ==
    /\ NoProvider
    /\ NoRun
    /\ NoConfig
    /\ NoEnc
    /\ NoPool
    /\ NoNames
    /\ NoCleanup
    /\ NoService
    /\ NoArchive
    /\ cryPlain \in Plains
    /\ cryKey \in Keys
    /\ cryFile = "absent"
    /\ cryChanged = "none"
    /\ cryDecKey = "none"
    /\ cryData = <<>>
    /\ cryOut0 \in OldOutputs
    /\ cryOut = cryOut0
    /\ cryPc = "plain"
    /\ cryFault = FALSE
    /\ cryReturn = "none"

NextCrypt ==
    \/ EncryptFile
    \/ ChangeFile
    \/ DecryptFileRead
    \/ DecryptFileWrite

SpecCrypt == InitCrypt /\ [][NextCrypt]_vars

\* ------------------------------------------ AWSS3Provider connection pool
MaxConnections == 3

PoolThreads == {"t1", "t2"}
PoolSizes == {1, 2}

\* _get_connection_from_pool, `if not self._connection_pool: return None`
PoolGetCheck(t) ==
    /\ poolPc[t] = "idle"
    /\ poolHeld[t] = 0
    /\ poolPc' = [poolPc EXCEPT ![t] = IF connection_pool = <<>> THEN "idle" ELSE "get"]
    /\ UNCHANGED <<connection_pool_size, connection_pool, poolHeld, poolMade>>
    /\ UNCHANGED <<provVars, runVars, nameVars, cleanVars, svcVars, archVars, cryVars, encVars, cfgVars>>

\* _get_connection_from_pool, `return self._connection_pool.pop()`, None on
\* IndexError
PoolGetPop(t) ==
    /\ poolPc[t] = "get"
    /\ poolPc' = [poolPc EXCEPT ![t] = "idle"]
    /\ IF connection_pool = <<>>
       THEN UNCHANGED <<connection_pool, poolHeld>>
       ELSE /\ poolHeld' = [poolHeld EXCEPT ![t] = connection_pool[Len(connection_pool)]]
            /\ connection_pool' = SubSeq(connection_pool, 1, Len(connection_pool) - 1)
    /\ UNCHANGED <<connection_pool_size, poolMade>>
    /\ UNCHANGED <<provVars, runVars, nameVars, cleanVars, svcVars, archVars, cryVars, encVars, cfgVars>>

\* _create_new_connection: a caller the pool gave nothing makes a client
PoolCreate(t) ==
    /\ poolPc[t] = "idle"
    /\ poolHeld[t] = 0
    /\ poolMade < MaxConnections
    /\ poolMade' = poolMade + 1
    /\ poolHeld' = [poolHeld EXCEPT ![t] = poolMade + 1]
    /\ UNCHANGED <<connection_pool_size, connection_pool, poolPc>>
    /\ UNCHANGED <<provVars, runVars, nameVars, cleanVars, svcVars, archVars, cryVars, encVars, cfgVars>>

\* _return_connection_to_pool, `if len(self._connection_pool) <
\* self.connection_pool_size`; a connection the pool has no room for is dropped
PoolReturnCheck(t) ==
    /\ poolPc[t] = "idle"
    /\ poolHeld[t] # 0
    /\ IF Len(connection_pool) < connection_pool_size
       THEN /\ poolPc' = [poolPc EXCEPT ![t] = "return"]
            /\ UNCHANGED poolHeld
       ELSE /\ poolHeld' = [poolHeld EXCEPT ![t] = 0]
            /\ UNCHANGED poolPc
    /\ UNCHANGED <<connection_pool_size, connection_pool, poolMade>>
    /\ UNCHANGED <<provVars, runVars, nameVars, cleanVars, svcVars, archVars, cryVars, encVars, cfgVars>>

\* _return_connection_to_pool, `self._connection_pool.append(connection)`
PoolReturnAppend(t) ==
    /\ poolPc[t] = "return"
    /\ connection_pool' = Append(connection_pool, poolHeld[t])
    /\ poolHeld' = [poolHeld EXCEPT ![t] = 0]
    /\ poolPc' = [poolPc EXCEPT ![t] = "idle"]
    /\ UNCHANGED <<connection_pool_size, poolMade>>
    /\ UNCHANGED <<provVars, runVars, nameVars, cleanVars, svcVars, archVars, cryVars, encVars, cfgVars>>

InitPool ==
    /\ NoProvider
    /\ NoRun
    /\ NoConfig
    /\ NoEnc
    /\ NoNames
    /\ NoCleanup
    /\ NoService
    /\ NoArchive
    /\ NoCrypt
    /\ connection_pool_size \in PoolSizes
    /\ connection_pool = <<>>
    /\ poolPc = [t \in PoolThreads |-> "idle"]
    /\ poolHeld = [t \in PoolThreads |-> 0]
    /\ poolMade = 0

NextPool ==
    \E t \in PoolThreads :
        \/ PoolGetCheck(t)
        \/ PoolGetPop(t)
        \/ PoolCreate(t)
        \/ PoolReturnCheck(t)
        \/ PoolReturnAppend(t)

SpecPool == InitPool /\ [][NextPool]_vars

\* --------------------------------------- AWSS3Provider client-side encryption
\* config.get('encryption_key') / config.get('encryption_salt'): absent,
\* bytes, or the str a JSON configuration file gives
KeyConfigs == {"absent", "bytes", "str"}

EncConfigs ==
    [encryption_enabled : BOOLEAN, encryption_key : KeyConfigs, encryption_salt : KeyConfigs]

\* what the bucket holds under a name: nothing, the bytes of the file, a
\* token of this provider's key, a token of another key
Contents == {"none", "plain", "cipher", "foreign"}

\* __init__, lines 47-55, with _initialize_encryption: an absent key or salt
\* is generated; PBKDF2HMAC and kdf.derive raise TypeError for a str, and the
\* handler turns encryption off
InitializeEncryption ==
    /\ encPc = "new"
    /\ encPc' = "ready"
    /\ IF ~encConfig.encryption_enabled
       THEN /\ encryption_enabled' = FALSE
            /\ fernet' = NoKey
       ELSE IF encConfig.encryption_key = "str" \/ encConfig.encryption_salt = "str"
       THEN /\ encryption_enabled' = FALSE
            /\ fernet' = NoKey
       ELSE /\ encryption_enabled' = TRUE
            /\ fernet' = "k1"
    /\ UNCHANGED <<encConfig, encBucket, encTemp, encLocal, encLast>>
    /\ UNCHANGED <<provVars, runVars, nameVars, cleanVars, svcVars, archVars, cryVars, poolVars, cfgVars>>

\* upload_encrypted(file_path, remote_name); readOut, tempOut: the read of
\* file_path and the write of the temporary file ("ok", "error"); upOut:
\* what self.upload returned
UploadEncrypted(readOut, tempOut, upOut) ==
    /\ encPc = "ready"
    /\ IF ~encryption_enabled
       THEN /\ readOut = "ok" /\ tempOut = "ok"
            /\ encBucket' = IF upOut THEN [encBucket EXCEPT !.plain = "plain"] ELSE encBucket
            /\ encLast' = [op |-> "upload_encrypted", ret |-> upOut, path |-> "standard"]
            /\ UNCHANGED encTemp
       ELSE IF fernet = NoKey
       THEN /\ readOut = "ok" /\ tempOut = "ok" /\ ~upOut
            /\ encLast' = [op |-> "upload_encrypted", ret |-> FALSE, path |-> "no_fernet"]
            /\ UNCHANGED <<encBucket, encTemp>>
       ELSE IF readOut = "error"
       THEN /\ tempOut = "ok" /\ ~upOut
            /\ encLast' = [op |-> "upload_encrypted", ret |-> FALSE, path |-> "except"]
            /\ UNCHANGED <<encBucket, encTemp>>
       ELSE IF tempOut = "error"
       THEN /\ ~upOut
            /\ encTemp' = TRUE
            /\ encLast' = [op |-> "upload_encrypted", ret |-> FALSE, path |-> "except"]
            /\ UNCHANGED encBucket
       ELSE /\ encBucket' = IF upOut THEN [encBucket EXCEPT !.encrypted = "cipher"] ELSE encBucket
            /\ encTemp' = FALSE
            /\ encLast' = [op |-> "upload_encrypted", ret |-> upOut, path |-> "end"]
    /\ UNCHANGED <<encConfig, encryption_enabled, fernet, encPc, encLocal>>
    /\ UNCHANGED <<provVars, runVars, nameVars, cleanVars, svcVars, archVars, cryVars, poolVars, cfgVars>>

\* download_encrypted(remote_name, local_path); dlOut: the backend answers
\* self.download; writeOut: the write of local_path ("ok", "error")
DownloadEncrypted(dlOut, writeOut) ==
    /\ encPc = "ready"
    /\ IF ~encryption_enabled
       THEN /\ writeOut = "ok"
            /\ LET got == dlOut /\ encBucket.plain # "none"
               IN /\ encLocal' = IF got THEN encBucket.plain ELSE encLocal
                  /\ encLast' = [op |-> "download_encrypted", ret |-> got, path |-> "standard"]
            /\ UNCHANGED encTemp
       ELSE IF fernet = NoKey
       THEN /\ writeOut = "ok" /\ dlOut
            /\ encLast' = [op |-> "download_encrypted", ret |-> FALSE, path |-> "no_fernet"]
            /\ UNCHANGED <<encTemp, encLocal>>
       ELSE IF ~(dlOut /\ encBucket.encrypted # "none")
       THEN /\ writeOut = "ok"
            /\ encLast' = [op |-> "download_encrypted", ret |-> FALSE, path |-> "not_downloaded"]
            /\ UNCHANGED <<encTemp, encLocal>>
       ELSE IF encBucket.encrypted # "cipher"
       THEN \* _decrypt_data raises InvalidToken
            /\ writeOut = "ok"
            /\ encTemp' = TRUE
            /\ encLast' = [op |-> "download_encrypted", ret |-> FALSE, path |-> "except"]
            /\ UNCHANGED encLocal
       ELSE IF writeOut = "error"
       THEN /\ encTemp' = TRUE
            /\ encLast' = [op |-> "download_encrypted", ret |-> FALSE, path |-> "except"]
            /\ UNCHANGED encLocal
       ELSE /\ encTemp' = FALSE
            /\ encLocal' = "plain"
            /\ encLast' = [op |-> "download_encrypted", ret |-> TRUE, path |-> "end"]
    /\ UNCHANGED <<encConfig, encryption_enabled, fernet, encPc, encBucket>>
    /\ UNCHANGED <<provVars, runVars, nameVars, cleanVars, svcVars, archVars, cryVars, poolVars, cfgVars>>

InitEnc ==
    /\ NoProvider
    /\ NoRun
    /\ NoConfig
    /\ NoNames
    /\ NoCleanup
    /\ NoService
    /\ NoArchive
    /\ NoCrypt
    /\ NoPool
    /\ encConfig \in EncConfigs
    /\ encryption_enabled = FALSE
    /\ fernet = NoKey
    /\ encPc = "new"
    /\ encBucket \in [plain : {"none"}, encrypted : Contents \ {"plain"}]
    /\ encTemp = FALSE
    /\ encLocal = "none"
    /\ encLast = [op |-> "none", ret |-> FALSE, path |-> "none"]

NextEnc ==
    \/ InitializeEncryption
    \/ \E readOut, tempOut \in {"ok", "error"}, upOut \in BOOLEAN :
            UploadEncrypted(readOut, tempOut, upOut)
    \/ \E dlOut \in BOOLEAN, writeOut \in {"ok", "error"} :
            DownloadEncrypted(dlOut, writeOut)

SpecEnc == InitEnc /\ [][NextEnc]_vars

\* ------------------------------------------- BackupService._load_config
MaxLoads == 2

\* the keys of default_config
ConfigKeys == {"backup_items", "providers", "retention"}

\* a JSON object: each key missing, of its default value, or of another one
Bodies == [ConfigKeys -> {"missing", "default", "custom"}]
NoBody == [k \in ConfigKeys |-> "missing"]
DefaultConfig == [k \in ConfigKeys |-> "default"]

\* the file: absent, a JSON object, a JSON array, or no JSON at all
ConfigFiles ==
    {[kind |-> "object", body |-> b] : b \in Bodies}
        \cup {[kind |-> k, body |-> NoBody] : k \in {"absent", "array", "garbage"}}

\* `for key, value in default_config.items(): if key not in config: ...`
MergeDefaults(body) ==
    [k \in ConfigKeys |-> IF body[k] = "missing" THEN "default" ELSE body[k]]

\* `if Path(self.config_file).exists()`
LoadConfigExists ==
    /\ cfgPc = "start"
    /\ cfgLoads < MaxLoads
    /\ cfgLoads' = cfgLoads + 1
    /\ cfgFile0' = config_file
    /\ cfgPc' = IF config_file.kind = "absent" THEN "write" ELSE "read"
    /\ UNCHANGED <<config_file, config>>
    /\ UNCHANGED <<provVars, runVars, nameVars, cleanVars, svcVars, archVars, cryVars, poolVars,
                   encVars>>

\* the try block: open, json.load and the merge with the defaults; out =
\* "error": open raises.  An exception (no JSON, an array that takes no
\* key, a file that cannot be read) is logged and the function goes on
LoadConfigRead(out) ==
    /\ cfgPc = "read"
    /\ IF out = "ok" /\ config_file.kind = "object"
       THEN /\ config' = MergeDefaults(config_file.body)
            /\ cfgPc' = "returned"
       ELSE /\ cfgPc' = "write"
            /\ UNCHANGED config
    /\ UNCHANGED <<config_file, cfgFile0, cfgLoads>>
    /\ UNCHANGED <<provVars, runVars, nameVars, cleanVars, svcVars, archVars, cryVars, poolVars,
                   encVars>>

\* "Create default config file": mkdir, open(self.config_file, 'w'),
\* json.dump(default_config); out = "error": mkdir or open raises, and the
\* exception leaves _load_config
LoadConfigWrite(out) ==
    /\ cfgPc = "write"
    /\ IF out = "ok"
       THEN /\ config_file' = [kind |-> "object", body |-> DefaultConfig]
            /\ config' = DefaultConfig
            /\ cfgPc' = "defaulted"
       ELSE /\ cfgPc' = "raised"
            /\ UNCHANGED <<config_file, config>>
    /\ UNCHANGED <<cfgFile0, cfgLoads>>
    /\ UNCHANGED <<provVars, runVars, nameVars, cleanVars, svcVars, archVars, cryVars, poolVars,
                   encVars>>

\* BackupService() is constructed again
LoadConfigAgain ==
    /\ cfgPc \in {"returned", "defaulted", "raised"}
    /\ cfgLoads < MaxLoads
    /\ cfgPc' = "start"
    /\ UNCHANGED <<config_file, cfgFile0, config, cfgLoads>>
    /\ UNCHANGED <<provVars, runVars, nameVars, cleanVars, svcVars, archVars, cryVars, poolVars,
                   encVars>>

InitConfig ==
    /\ NoProvider
    /\ NoRun
    /\ NoNames
    /\ NoCleanup
    /\ NoService
    /\ NoArchive
    /\ NoCrypt
    /\ NoPool
    /\ NoEnc
    /\ config_file \in ConfigFiles
    /\ cfgFile0 = config_file
    /\ config = NoBody
    /\ cfgPc = "start"
    /\ cfgLoads = 0

NextConfig ==
    \/ LoadConfigExists
    \/ \E out \in {"ok", "error"} : LoadConfigRead(out)
    \/ \E out \in {"ok", "error"} : LoadConfigWrite(out)
    \/ LoadConfigAgain

SpecConfig == InitConfig /\ [][NextConfig]_vars

\* =============================================================== claims
RetriedCall ==
    /\ last.op \in {"upload", "download", "delete"}
    /\ last.looped

\* C1 (Spec): after upload(B, x) returned true, with no delete of x since, a
\* download(x) that the backend answers returns true and yields exactly B,
\* also when x had been uploaded before with other bytes.
C1_RoundTrip ==
    (last.op = "download" /\ last.held # NoData /\ last.errs = {})
        => (last.ret = "true" /\ last.data = last.held)

\* C1, the providers that keep one object per name or serve the newest
\* version: the round trip holds for them.
C1_RoundTripOneObjectPerName ==
    (provider # "google_drive" /\ last.op = "download" /\ last.held # NoData /\ last.errs = {})
        => (last.ret = "true" /\ last.data = last.held)

\* C2 (SpecRetry): a call with a retry loop in which every attempt failed
\* with a transient error made exactly max_retries attempts and returned false.
C2_ExactlyMaxRetries ==
    (RetriedCall /\ last.ntrans = last.attempts)
        => (last.attempts = max_retries /\ last.ret = "false")

\* C2 without the S3 delete that meets a connection error: exact.
C2_ExactlyMaxRetriesButDeleteEndpoint ==
    (RetriedCall /\ last.ntrans = last.attempts
       /\ ~(provider = "aws_s3" /\ last.op = "delete" /\ "endpoint" \in last.errs))
        => (last.attempts = max_retries /\ last.ret = "false")

\* C3 (SpecRetry): the attempt that fails with a 403 or a 404 is the last
\* one: the call returns false with no further attempt and no wait after it.
C3_NoRetryOnPermanent ==
    (RetriedCall /\ last.permAt # 0)
        => (/\ last.ret = "false"
            /\ last.attempts = last.permAt
            /\ Len(last.slept) = last.permAt - 1)

\* C3 for the S3 provider alone: holds.
C3_NoRetryOnPermanentS3 ==
    (provider = "aws_s3" /\ RetriedCall /\ last.permAt # 0)
        => (/\ last.ret = "false"
            /\ last.attempts = last.permAt
            /\ Len(last.slept) = last.permAt - 1)

\* C4 (SpecRetry): in every retry loop (client initialisation included) the
\* wait after failed attempt k (from 0) is retry_delay * 2^k, every attempt
\* but the last is followed by one wait and the last by none, and a loop
\* that used up max_retries = n >= 1 attempts has waited n-1 times,
\* retry_delay * (2^(n-1) - 1) in total.
C4_Backoff ==
    last.looped =>
        /\ \A k \in 1..Len(last.slept) : last.slept[k] = retry_delay * Pow2(k - 1)
        /\ last.attempts >= 1 => Len(last.slept) = last.attempts - 1
        /\ last.attempts = 0 => last.slept = <<>>
        /\ (last.attempts = max_retries /\ max_retries >= 1) =>
              /\ Len(last.slept) = max_retries - 1
              /\ SumSeq(last.slept) = retry_delay * (Pow2(max_retries - 1) - 1)

\* C4 witness: a loop that used up three or more attempts, so waited twice
\* or more, and returned false.
C4_Witness ==
    /\ last.looped
    /\ last.ret = "false"
    /\ last.attempts = max_retries
    /\ Len(last.slept) >= 2

\* C5 (SpecRetry): an S3 upload returns false only after max_retries
\* attempts or after an error that is not retryable, whatever the file size.
C5_FailedOnlyAfterRetries ==
    (provider = "aws_s3" /\ client = "ready" /\ last.op = "upload" /\ last.ret = "false")
        => (last.attempts = max_retries \/ last.errs \ Transient # {})

\* C5 for files up to multipart_threshold: holds.
C5_FailedOnlyAfterRetriesStandard ==
    (provider = "aws_s3" /\ client = "ready" /\ last.op = "upload" /\ last.ret = "false"
       /\ ~last.large)
        => (last.attempts = max_retries \/ last.errs \ Transient # {})

\* C6 (SpecRetry): upload never raises; every failure is the value false.
C6_UploadNeverRaises ==
    last.op = "upload" => last.ret \in {"true", "false"}

\* C7 (SpecRetry): download or delete of a name that is not stored returns
\* false without raising and leaves the stored objects unchanged.
C7_AbsentReturnsFalse ==
    (last.op \in {"download", "delete"} /\ ~last.present)
        => (last.ret = "false" /\ ~last.changed)

\* C7 when the backend answers the lookup and the client attribute exists:
\* the not-found answer is the value false in all five providers.
C7_NotFoundAnswerIsFalse ==
    (last.op \in {"download", "delete"} /\ ~last.present /\ client # "unset"
       /\ last.errs \subseteq {"404"})
        => (last.ret = "false" /\ ~last.changed)

\* C8 (SpecList): list(prefix, maxResults) returns at most maxResults entries.
C8_ListBounded ==
    last.op = "list" => (last.ret = "returned" /\ Len(last.listed) <= last.maxArg)

\* C8 for the providers whose list_files takes max_files: holds.
C8_ListBoundedWhereAccepted ==
    (last.op = "list" /\ provider \in {"local", "aws_s3", "google_drive"})
        => (last.ret = "returned" /\ Len(last.listed) <= last.maxArg)

\* C9 (SpecList): test_connection leaves the stored objects as they were,
\* whatever it returns, and a list call made while it runs reports no
\* object that test_connection created.
C9_TestConnectionNoMutation ==
    /\ last.op = "test_connection" => ~last.changed
    /\ (last.op = "list" /\ last.during = "written" /\ SentinelFiles(tcPre) = <<>>)
          => Sentinel \notin Range(last.listed)

\* C9 for the remote providers, whose test only reads: holds.
C9_RemoteTestOnlyReads ==
    (provider # "local" /\ last.op = "test_connection") => ~last.changed

C19_ArchivePathsDistinct ==
    \A r1, r2 \in Runs :
        r1 # r2 => nmWrote[r1] \cap nmWrote[r2] = {}

\* C19, runs with different timestamps: their paths differ.
C19_DistinctTimestampsDistinctPaths ==
    \A r1, r2 \in Runs :
        (r1 # r2 /\ nmTs[r1] # nmTs[r2]) => nmWrote[r1] \cap nmWrote[r2] = {}

\* C20 (SpecNames): the archive is named homeserver_backup_<ts>.tar.gz, and
\* the file encrypt_file writes by default has exactly that name followed by
\* .encrypted.
C20_ArtifactNames ==
    \A r \in Runs :
        /\ nmArchive[r] # NoPath =>
              nmArchive[r] = <<"homeserver_backup_", nmTs[r], ".tar", ".gz">>
        /\ nmEncrypted[r] # NoPath =>
              nmEncrypted[r] = <<"homeserver_backup_", nmTs[r], ".tar", ".gz", ".encrypted">>

\* C20, the unencrypted archive alone: homeserver_backup_<ts>.tar.gz.
C20_ArchiveName ==
    \A r \in Runs :
        nmArchive[r] # NoPath =>
            nmArchive[r] = <<"homeserver_backup_", nmTs[r], ".tar", ".gz">>

\* C11 (SpecRun): when a run has finished (every enabled provider was
\* attempted), none of its working files is left on disk: neither the
\* archive nor the encrypted file.
C11_NoLeftover ==
    runPc = "done" => runDisk = {}

\* C11 witness: a finished run that had built an archive and an encrypted
\* file, with a provider that failed and one that did not.
C11_Witness ==
    /\ runPc = "done"
    /\ runMade = {"archive", "encrypted"}
    /\ runDisk = {}
    /\ \E p \in runEnabled : runResult[p] = "false"
    /\ \E p \in runEnabled : runResult[p] = "true"

\* the k elements of S with the largest modification times
TopK(S, k) == {t \in S : Cardinality({u \in S : u > t}) < k}

\* newer than now minus the retention days
WithinAge(t) == t > Now - retention_days

\* cleanup_old_backups has returned and every delete it called returned True
CleanupSucceeded == clPc = "done" /\ ~clRaised /\ clAttempted = clRemoved

\* C12 (SpecCleanup): after cleanup_old_backups ran and every deletion it
\* issued succeeded, each provider holds at most max count backups and every
\* backup left is newer than now minus the retention days.
C12_RetentionHolds ==
    CleanupSucceeded =>
        \A p \in ServiceProviders :
            /\ Cardinality(clStore[p]) <= max_backups
            /\ \A t \in clStore[p] : WithinAge(t)

\* C12, the count alone: each provider holds at most max count backups.
C12_CountHolds ==
    CleanupSucceeded =>
        \A p \in ServiceProviders : Cardinality(clStore[p]) <= max_backups

\* C13 (SpecCleanup): cleanup with max count k on a provider that holds
\* n > k backups, none older than the age limit, leaves exactly its k newest
\* backups (all deletions succeeding).
C13_KeepsNewestK ==
    CleanupSucceeded =>
        \A p \in ServiceProviders :
            (Cardinality(clStore0[p]) > max_backups /\ \A t \in clStore0[p] : WithinAge(t))
                => clStore[p] = TopK(clStore0[p], max_backups)

\* C13, when no other provider holds a backup: the k newest are left.
C13_KeepsNewestKAlone ==
    CleanupSucceeded =>
        \A p \in ServiceProviders :
            (/\ Cardinality(clStore0[p]) > max_backups
             /\ \A q \in ServiceProviders \ {p} : clStore0[q] = {})
                => clStore[p] = TopK(clStore0[p], max_backups)

\* C14 (SpecCleanup): a deletion that fails (delete returns false or raises)
\* does not stop the batch: when cleanup has returned, the delete of every
\* backup selected for removal was attempted.
C14_BatchGoesOn ==
    clPc = "done" => clAttempted = clSelected

\* C14, a delete that returns false: the batch goes on.
C14_BatchGoesOnAfterFalse ==
    (clPc = "done" /\ ~clRaised) => clAttempted = clSelected

\* C16 (SpecCleanup): a provider that holds at most max count backups, all
\* within the age limit, loses none of them to cleanup, whatever the other
\* providers hold.
C16_PerProvider ==
    \A p \in ServiceProviders :
        (Cardinality(clStore0[p]) <= max_backups /\ \A t \in clStore0[p] : WithinAge(t))
            => \A b \in clAttempted : b.provider # p

\* C16, when all providers together hold at most max count backups: nothing
\* is deleted.
C16_NothingBeyondTotal ==
    Total(clStore0) <= max_backups => clAttempted = {}

\* C15 (SpecCleanupRun): a cleanup that lists while a backup run is under
\* way never deletes an artifact of that run; it deletes only backups
\* strictly older than the run.
C15_CleanupSparesRun ==
    clDuring => \A b \in clRemoved : b.mtime < Now

\* C15 with a max count of one at least: the same statement.
C15_CleanupSparesRunKeepingOne ==
    (clDuring /\ max_backups >= 1) => \A b \in clRemoved : b.mtime < Now

\* C15, a cleanup that lists before the run begins to upload: it deletes
\* nothing of the run.
C15_CleanupBeforeRun ==
    ~clDuring => \A b \in clSelected : b.mtime < Now \/ crPc = "done"

\* the configuration names an enabled provider that is not in the registry,
\* or an enabled provider lacks a required field
ConfigError ==
    \E n \in svcEnabled : n \notin PROVIDERS \/ svcCtor[n] = "invalid"

\* C17 (SpecService): with a configuration error present no I/O is
\* attempted: no provider is constructed and none is tested.
C17_ConfigErrorStopsAll ==
    ConfigError => (svcBuilt = {} /\ \A n \in ConfigNameSet : svcTested[n] = 0)

\* C17, the provider of unknown name itself: it is neither constructed nor
\* tested.
C17_UnknownNeverBuilt ==
    \A n \in ConfigNameSet \ PROVIDERS : n \notin svcBuilt /\ svcTested[n] = 0

\* C18 (SpecService): when the test of all providers has returned, every
\* enabled provider was tested exactly once, whatever the earlier tests
\* returned or raised, and no exception left the operation.
C18_TestsEveryEnabled ==
    /\ svcPc # "raised"
    /\ svcPc = "tested" => \A n \in svcEnabled : svcTested[n] = 1

\* C18, the providers in self.providers: each is tested exactly once and no
\* exception leaves the operation.
C18_TestsEveryConstructed ==
    /\ svcPc # "raised"
    /\ svcPc = "tested" =>
          (/\ \A n \in ConfigNameSet :
                  svcTested[n] = (IF n \in Range(providers) THEN 1 ELSE 0)
           /\ all_success = (\A n \in Range(providers) : svcTest[n] = "true"))

\* the items of the list that exist, in order
ExistingItems == SelectSeq(backup_items, LAMBDA item : item \in arExists)

\* C21 (SpecArchive): when no backup item exists, create_backup returns no
\* archive path and leaves no archive on disk; when one exists at least, the
\* missing ones are skipped and an archive of the existing ones is returned.
C21_ZeroItemsFails ==
    arPc = "done" =>
        (/\ ExistingItems = <<>> => (arReturn = NoPath /\ ~arFile)
         /\ (ExistingItems # <<>> /\ arReturn # NoPath) =>
                [i \in 1..Len(arMembers) |-> arMembers[i].source] = ExistingItems)

\* C21, the second half: a returned archive holds exactly the existing
\* items, the missing ones being skipped.
C21_MissingSkipped ==
    (arPc = "done" /\ arReturn # NoPath) =>
        [i \in 1..Len(arMembers) |-> arMembers[i].source] = ExistingItems

\* C30 (SpecArchive): two distinct existing input paths are never stored
\* under the same member name.
C30_MemberNamesInjective ==
    \A i, j \in 1..Len(arMembers) :
        arMembers[i].source # arMembers[j].source =>
            arMembers[i].arcname # arMembers[j].arcname

\* C30, inputs of distinct base names: their member names are distinct.
C30_DistinctBaseNames ==
    \A i, j \in 1..Len(arMembers) :
        BaseName(arMembers[i].source) # BaseName(arMembers[j].source) =>
            arMembers[i].arcname # arMembers[j].arcname

\* decrypt_file was given a key under which the encrypted file verifies
Authentic == cryDecKey \in Keys /\ FernetDecrypt(cryDecKey, cryFile) # InvalidToken

\* C22 (SpecCrypt): decrypt_file of a file that does not verify (changed
\* token, wrong key) returns None and leaves the output path as it was; the
\* output path changes only once the whole token has been verified.
C22_FailsClosed ==
    /\ (cryPc = "done" /\ ~Authentic) => (cryReturn = NoPath /\ cryOut = cryOut0)
    /\ cryOut # cryOut0 => (cryPc = "done" /\ Authentic)

C22_Witness ==
    /\ cryPc = "done"
    /\ cryChanged = "ciphertext"
    /\ cryDecKey = cryKey
    /\ cryOut0 # Absent
    /\ cryReturn = NoPath

C24_PoolBounded ==
    /\ Len(connection_pool) <= connection_pool_size
    /\ \A t, u \in PoolThreads :
        (t # u /\ poolHeld[t] # 0) => poolHeld[t] # poolHeld[u]

\* C24, the second half alone: no connection is in the hands of two
\* callers, nor twice in the pool.
C24_NoSharedConnection ==
    /\ \A t, u \in PoolThreads :
        (t # u /\ poolHeld[t] # 0) => poolHeld[t] # poolHeld[u]
    /\ \A i, j \in 1..Len(connection_pool) :
        i # j => connection_pool[i] # connection_pool[j]

\* C25 (Spec): once delete(x) has returned true, no object named x is left
\* in the provider, to be listed or downloaded, also when x had been
\* uploaded several times.
C25_DeleteRemoves ==
    (last.op = "delete" /\ last.ret = "true") => ~Present(store, last.name)

\* C25, the providers that keep one object per name: a delete that
\* returned true left nothing of that name.
C25_DeleteRemovesOneObjectPerName ==
    (provider \notin {"google_drive", "backblaze"} /\ last.op = "delete" /\ last.ret = "true")
        => ~Present(store, last.name)

\* C26 (SpecService): test_connection returns true only if every enabled
\* provider was constructed and its test returned true; an enabled provider
\* that could not be constructed makes the result false.
C26_TrueOnlyIfAllEnabled ==
    (svcPc = "tested" /\ all_success) =>
        \A n \in svcEnabled : n \in Range(providers) /\ svcTest[n] = "true"

\* C26, the providers in self.providers: test_connection returns true only
\* if the test of each of them returned true.
C26_TrueOnlyIfAllConstructed ==
    (svcPc = "tested" /\ all_success) =>
        \A n \in Range(providers) : svcTest[n] = "true"

\* C27 (SpecEnc): a provider configured with encryption_enabled true never
\* stores the unencrypted bytes: upload_encrypted stores a token or returns
\* false, whatever the key and the salt of the configuration.
C27_NeverStoresPlain ==
    encConfig.encryption_enabled =>
        /\ encBucket.plain = "none"
        /\ (encLast.op = "upload_encrypted" /\ encLast.ret) => encBucket.encrypted = "cipher"

\* C27, a configuration whose key and salt are absent or bytes: nothing
\* unencrypted is stored.
C27_NeverStoresPlainUsableKey ==
    (/\ encConfig.encryption_enabled
     /\ encConfig.encryption_key # "str"
     /\ encConfig.encryption_salt # "str") =>
        /\ encBucket.plain = "none"
        /\ (encLast.op = "upload_encrypted" /\ encLast.ret) => encBucket.encrypted = "cipher"

\* C28 (SpecEnc): whenever upload_encrypted or download_encrypted has
\* returned, the temporary file /tmp/<remote_name>.encrypted is gone.
C28_TempRemoved ==
    encLast.op \in {"upload_encrypted", "download_encrypted"} => ~encTemp

\* C28, the calls that return true: the temporary file is gone.
C28_TempRemovedOnSuccess ==
    (encLast.op \in {"upload_encrypted", "download_encrypted"} /\ encLast.ret) => ~encTemp

\* C29 (SpecConfig): _load_config writes the default configuration only
\* when no file exists; a file that exists is left as it was, also when it
\* cannot be parsed.
C29_ExistingFileUnchanged ==
    cfgFile0.kind # "absent" => config_file = cfgFile0

\* C29, a file that json.load reads as an object: it is left as it was.
C29_ParsedFileUnchanged ==
    cfgPc = "returned" => (config_file = cfgFile0 /\ config = MergeDefaults(cfgFile0.body))

====
